---- MODULE Spec2Model ----
(***************************************************************************)
(* State-machine model of the lennox-s30 client (src/src/client.rs,        *)
(* diff.rs, protocol.rs, types.rs): the reconciliation loop, the command   *)
(* builder and the diagnostic-level enforcer.                              *)
(*                                                                         *)
(* Encodings                                                               *)
(*  - Option<T>: None is <<>>, Some(x) is <<x>>.                           *)
(*  - serde_json::Value: a record with the fixed fields t (kind), b, n, s, *)
(*    o (object: key -> Value) and a (array), so that two values of        *)
(*    different kinds can be compared.                                     *)
(*  - f64 temperatures: integers in units of 1/TempScale degree Celsius;   *)
(*    a JSON number in a Celsius leaf is in the same unit, a JSON number   *)
(*    in a Fahrenheit leaf is in whole degrees Fahrenheit.                 *)
(*  - a dotted path "a.b.c" is the sequence <<"a","b","c">>.               *)
(*  - Instant: whole seconds since the client was built.                   *)
(***************************************************************************)
EXTENDS Integers, Sequences, FiniteSets, TLC

VARIABLES
    connected,            \* S30Client.connected
    systems,              \* S30Client.systems : Vec<System>
    previous_json,        \* S30Client.previous_json : Value (an object)
    event_callbacks,      \* number of registered event observers
    snapshot_callbacks,   \* number of registered snapshot observers
    diag_enforcer,        \* Option<DiagEnforcer>
    diag_reassert_needed, \* S30Client.diag_reassert_needed
    now,                  \* the monotonic clock read by Instant::now()
    last,                 \* the last public call: name, arguments, result
    sent,                 \* the transport's log: requests since the log was last cleared
    calls                 \* the observers' log: invocations since it was last cleared

vars == <<connected, systems, previous_json, event_callbacks, snapshot_callbacks,
          diag_enforcer, diag_reassert_needed, now, last, sent, calls>>

----------------------------------------------------------------------------
(* Bounds of the model *)

MaxTime == 7500
MaxCallbacks == 1

----------------------------------------------------------------------------
(* Option<T> *)

None == <<>>
Some(x) == <<x>>
IsSome(opt) == Len(opt) > 0
Unwrap(opt) == opt[1]
UnwrapOr(opt, d) == IF Len(opt) > 0 THEN opt[1] ELSE d

----------------------------------------------------------------------------
(* serde_json::Value *)

NoKeys == [k \in {} |-> 0]

JNull == [t |-> "null", b |-> FALSE, n |-> 0, s |-> "", o |-> NoKeys, a |-> <<>>]
JBool(x) == [t |-> "bool", b |-> x, n |-> 0, s |-> "", o |-> NoKeys, a |-> <<>>]
JNum(x) == [t |-> "num", b |-> FALSE, n |-> x, s |-> "", o |-> NoKeys, a |-> <<>>]
JStr(x) == [t |-> "str", b |-> FALSE, n |-> 0, s |-> x, o |-> NoKeys, a |-> <<>>]
JObj(f) == [t |-> "obj", b |-> FALSE, n |-> 0, s |-> "", o |-> f, a |-> <<>>]
JArr(q) == [t |-> "arr", b |-> FALSE, n |-> 0, s |-> "", o |-> NoKeys, a |-> q]
EmptyObject == JObj(NoKeys)

is_object(v) == v.t = "obj"
as_bool(v) == IF v.t = "bool" THEN Some(v.b) ELSE None
as_f64(v) == IF v.t = "num" THEN Some(v.n) ELSE None
as_u64(v) == IF v.t = "num" /\ v.n >= 0 THEN Some(v.n) ELSE None
as_str(v) == IF v.t = "str" THEN Some(v.s) ELSE None

\* The casts "as u8", "as u16", "as u32" of a u64.  The model's integers stay
\* below 2^31, where the cast to u32 changes nothing.
AsU8(x) == x % 256
AsU16(x) == x % 65536
AsU32(x) == x

\* Value::get(key): None unless the value is an object holding the key.
Get(v, key) == IF v.t = "obj" /\ key \in DOMAIN v.o THEN Some(v.o[key]) ELSE None

\* opt.and_then(f) for the accessors above.
GetBool(v, key) == IF IsSome(Get(v, key)) THEN as_bool(Unwrap(Get(v, key))) ELSE None
GetF64(v, key) == IF IsSome(Get(v, key)) THEN as_f64(Unwrap(Get(v, key))) ELSE None
GetU64(v, key) == IF IsSome(Get(v, key)) THEN as_u64(Unwrap(Get(v, key))) ELSE None
GetStr(v, key) == IF IsSome(Get(v, key)) THEN as_str(Unwrap(Get(v, key))) ELSE None

\* Value::pointer("/a/b") over object keys.
RECURSIVE Pointer(_, _)
Pointer(v, path) ==
    IF path = <<>> THEN Some(v)
    ELSE IF IsSome(Get(v, Head(path)))
         THEN Pointer(Unwrap(Get(v, Head(path))), Tail(path))
         ELSE None

PointerOr(v, path, d) == UnwrapOr(Pointer(v, path), d)

\* serde_json::Map iterates its keys in sorted order (BTreeMap).
KeyOrder ==
    <<"0", "1", "2", "alert", "aux", "code", "config", "csp", "cspC", "descriptor",
      "diagLevel", "enabled", "equipType", "equipment", "fan", "fanMode", "hsp", "hspC",
      "humidity", "id", "inc", "indoorUnitType", "isStillActive", "manualAway", "max",
      "maxCsp", "maxCspC", "maxHsp", "maxHspC", "min", "minCsp", "minCspC", "minHsp",
      "minHspC", "name", "options", "outdoorTemperature", "outdoorTemperatureC",
      "outdoorUnitType", "parameter", "parameters", "period", "pid", "productType",
      "radio", "range", "scheduleHold", "scheduleId", "setpointState",
      "singleSetpointMode", "smartAway", "sp", "spC", "status", "string_max",
      "systemMode", "tempOperation", "temperature", "temperatureC", "temperatureUnit",
      "unit", "value">>

RECURSIVE SelectKeys(_, _)
SelectKeys(order, keys) ==
    IF order = <<>> THEN <<>>
    ELSE IF Head(order) \in keys
         THEN <<Head(order)>> \o SelectKeys(Tail(order), keys)
         ELSE SelectKeys(Tail(order), keys)

\* The keys of an object, as the map iterates them.
Keys(v) == SelectKeys(KeyOrder, DOMAIN v.o)

----------------------------------------------------------------------------
(* types.rs: Temperature *)

TempScale == 180
HalfDegree == TempScale \div 2

\* f64::round of the rational p/q (q > 0): nearest integer, ties away from zero.
RoundDiv(p, q) ==
    IF p >= 0 THEN (2 * p + q) \div (2 * q)
    ELSE 0 - ((2 * (0 - p) + q) \div (2 * q))

from_celsius(c) == c
from_fahrenheit(f) == ((f - 32) * 5 * TempScale) \div 9
from_pair(f, c) == c
celsius(t) == t
to_lennox_celsius(t) == RoundDiv(t, HalfDegree) * HalfDegree
to_lennox_fahrenheit(t) == RoundDiv(t * 9 + 32 * 5 * TempScale, 5 * TempScale)

DEADBAND_C == 3 * HalfDegree

----------------------------------------------------------------------------
(* types.rs: enums *)

HvacMode == {"Off", "Heat", "Cool", "HeatCool", "EmergencyHeat"}
FanMode == {"On", "Auto", "Circulate"}

HvacMode_as_lennox_str(m) ==
    CASE m = "Off" -> "off"
      [] m = "Heat" -> "heat"
      [] m = "Cool" -> "cool"
      [] m = "HeatCool" -> "heat and cool"
      [] m = "EmergencyHeat" -> "emergency heat"

HvacMode_from_lennox_str(s) ==
    CASE s = "off" -> Some("Off")
      [] s = "heat" -> Some("Heat")
      [] s = "cool" -> Some("Cool")
      [] s = "heat and cool" -> Some("HeatCool")
      [] s = "emergency heat" -> Some("EmergencyHeat")
      [] OTHER -> None

FanMode_as_lennox_str(m) ==
    CASE m = "On" -> "on"
      [] m = "Auto" -> "auto"
      [] m = "Circulate" -> "circulate"

FanMode_from_lennox_str(s) ==
    CASE s = "on" -> Some("On")
      [] s = "auto" -> Some("Auto")
      [] s = "circulate" -> Some("Circulate")
      [] OTHER -> None

OperatingState_from_lennox_str(s) ==
    CASE s \in {"idle", "off"} -> Some("Idle")
      [] s = "heating" -> Some("Heating")
      [] s = "cooling" -> Some("Cooling")
      [] OTHER -> None

----------------------------------------------------------------------------
(* types.rs: the domain model *)

DefaultZone(zone_id) ==
    [id |-> zone_id, name |-> "", temperature |-> None, humidity |-> None,
     heat_setpoint |-> None, cool_setpoint |-> None, mode |-> None,
     fan_mode |-> None, fan_running |-> FALSE, operating |-> "Idle",
     aux_heat |-> FALSE, schedule_id |-> None, override_active |-> FALSE]

DefaultEquipment(equip_id) ==
    [id |-> equip_id, equip_type |-> 0, parameters |-> NoKeys]

DefaultSystem(sid) ==
    [id |-> sid, name |-> "", zones |-> <<>>, outdoor_temperature |-> None,
     product_type |-> "", temperature_unit |-> "", indoor_unit_type |-> "",
     outdoor_unit_type |-> "", manual_away |-> FALSE, smart_away_enabled |-> FALSE,
     smart_away_setpoint_state |-> "", equipments |-> <<>>,
     single_setpoint_mode |-> FALSE, diag_level |-> None,
     hp_low_ambient_lockout |-> FALSE, aux_heat_high_ambient_lockout |-> FALSE]

is_away_manual_only(system) == system.manual_away

is_away(system) ==
    \/ system.manual_away
    \/ /\ system.smart_away_enabled
       /\ system.smart_away_setpoint_state \in {"transition", "away"}

\* iter().position(pred): the first index whose element has the id, 0 if none.
PositionOf(seq, id) ==
    IF \E i \in 1..Len(seq) : seq[i].id = id
    THEN CHOOSE i \in 1..Len(seq) : seq[i].id = id /\ \A j \in 1..(i - 1) : seq[j].id # id
    ELSE 0

\* iter().find(|z| z.id == id)
FindById(seq, id) == IF PositionOf(seq, id) = 0 THEN None ELSE Some(seq[PositionOf(seq, id)])

----------------------------------------------------------------------------
(* protocol.rs *)

TARGET_LCC == "LCC"

manual_schedule_id(zone_id) == 16 + zone_id
override_schedule_id(zone_id) == 32 + zone_id

\* The request bodies; the envelope (command_message) adds the sender, the
\* target and a fresh message id around Data.
set_manual_mode_data(zone_id) ==
    [kind |-> "set_manual_schedule", zone |-> zone_id,
     scheduleId |-> manual_schedule_id(zone_id)]

set_hvac_mode_data(schedule_id, mode) ==
    [kind |-> "set_hvac_mode", schedule |-> schedule_id, systemMode |-> mode]

set_fan_mode_data(schedule_id, mode) ==
    [kind |-> "set_fan_mode", schedule |-> schedule_id, fanMode |-> mode]

set_setpoint_data(schedule_id, hsp_f, hsp_c, csp_f, csp_c) ==
    [kind |-> "set_setpoint", schedule |-> schedule_id,
     hsp |-> hsp_f, hspC |-> hsp_c, csp |-> csp_f, cspC |-> csp_c]

set_manual_away_data(away) == [kind |-> "set_away", manualAway |-> away]

set_schedule_hold_data(zone_id, hold) ==
    [kind |-> "set_schedule_hold", zone |-> zone_id,
     scheduleId |-> override_schedule_id(zone_id), enabled |-> hold]

set_parameter_data(equip_type, pid, value) ==
    [kind |-> "set_parameter", et |-> equip_type, pid |-> pid, value |-> value]

set_diag_level_data(level) == [kind |-> "set_diag_level", diagLevel |-> level]

\* parse_retrieve_response: the Data of every message sent by the device.
\* A body that does not parse gives no payload.
RECURSIVE FilterMessages(_)
FilterMessages(msgs) ==
    IF msgs = <<>> THEN <<>>
    ELSE IF Head(msgs).SenderID = TARGET_LCC /\ IsSome(Head(msgs).Data)
         THEN <<Unwrap(Head(msgs).Data)>> \o FilterMessages(Tail(msgs))
         ELSE FilterMessages(Tail(msgs))

\* parse_retrieve_response handing the payloads over last message first.
parse_retrieve_response_last_first(body) ==
    IF body.parses
    THEN [i \in 1..Len(FilterMessages(body.messages)) |->
            FilterMessages(body.messages)[Len(FilterMessages(body.messages)) + 1 - i]]
    ELSE <<>>

\* parse_retrieve_response without the test of the sender.
parse_retrieve_response_any_sender(body) ==
    IF body.parses
    THEN [i \in 1..Len(SelectSeq(body.messages, LAMBDA m : IsSome(m.Data))) |->
            Unwrap(SelectSeq(body.messages, LAMBDA m : IsSome(m.Data))[i].Data)]
    ELSE <<>>

parse_retrieve_response(body) ==
    IF body.parses THEN FilterMessages(body.messages) ELSE <<>>

----------------------------------------------------------------------------
(* diff.rs *)

CelsiusCompanions ==
    [temperature |-> "temperatureC", hsp |-> "hspC", csp |-> "cspC", sp |-> "spC",
     outdoorTemperature |-> "outdoorTemperatureC", maxHsp |-> "maxHspC",
     minHsp |-> "minHspC", maxCsp |-> "maxCspC", minCsp |-> "minCspC"]

\* is_celsius_companion that knows no companion.
is_celsius_companion_none(field) == FALSE

is_celsius_companion(field) ==
    \E f \in DOMAIN CelsiusCompanions : CelsiusCompanions[f] = field

celsius_companion(f_field) ==
    IF f_field \in DOMAIN CelsiusCompanions THEN Some(CelsiusCompanions[f_field]) ELSE None

RECURSIVE diff_json(_, _, _)
RECURSIVE DiffKeys(_, _, _, _)

\* The loop over the current object's keys.
DiffKeys(prev_map, curr_map, path_prefix, keys) ==
    IF keys = <<>> THEN <<>>
    ELSE LET key == Head(keys)
             curr_val == curr_map[key]
             path == Append(path_prefix, key)
             here == IF key \in DOMAIN prev_map
                     THEN diff_json(prev_map[key], curr_val, path)
                     ELSE IF is_object(curr_val)
                          THEN diff_json(EmptyObject, curr_val, path)
                          ELSE <<[path |-> path, old |-> JNull, new |-> curr_val]>>
         IN here \o DiffKeys(prev_map, curr_map, path_prefix, Tail(keys))

diff_json(previous, current, path_prefix) ==
    IF is_object(previous) /\ is_object(current)
    THEN DiffKeys(previous.o, current.o, path_prefix, Keys(current))
    ELSE IF previous # current
         THEN <<[path |-> path_prefix, old |-> previous, new |-> current]>>
         ELSE <<>>

try_build_temperature(f_field, parent) ==
    LET c_field == celsius_companion(f_field) IN
    IF c_field = None THEN None
    ELSE IF GetF64(parent, f_field) = None THEN None
    ELSE IF GetF64(parent, Unwrap(c_field)) = None THEN None
    ELSE Some(from_pair(Unwrap(GetF64(parent, f_field)),
                        Unwrap(GetF64(parent, Unwrap(c_field)))))

SystemScope == [kind |-> "System", id |-> 0]
ZoneScope(zone_id) == [kind |-> "Zone", id |-> zone_id]
EquipmentScope(equip_id) == [kind |-> "Equipment", id |-> equip_id]

map_typed_event(scope, path, new_value, zone_name, parent_obj) ==
    LET status == PointerOr(parent_obj, <<"status">>, JNull)
        period == PointerOr(parent_obj, <<"status", "period">>, JNull)
    IN
    CASE scope.kind = "System" /\ path = <<"status", "outdoorTemperature">> ->
           LET temp == try_build_temperature("outdoorTemperature", status) IN
           IF temp = None THEN None
           ELSE Some([type |-> "OutdoorTempChanged", temp |-> Unwrap(temp)])
      [] scope.kind = "Zone" /\ path = <<"status", "temperature">> ->
           LET temp == try_build_temperature("temperature", status) IN
           IF temp = None THEN None
           ELSE Some([type |-> "ZoneTemperatureChanged", zone_id |-> scope.id,
                      name |-> zone_name, temp |-> Unwrap(temp)])
      [] scope.kind = "Zone" /\ path = <<"status", "humidity">> ->
           IF as_f64(new_value) = None THEN None
           ELSE Some([type |-> "ZoneHumidityChanged", zone_id |-> scope.id,
                      name |-> zone_name, humidity |-> Unwrap(as_f64(new_value))])
      [] scope.kind = "Zone" /\ path = <<"status", "period", "systemMode">> ->
           IF as_str(new_value) = None THEN None
           ELSE IF HvacMode_from_lennox_str(Unwrap(as_str(new_value))) = None THEN None
           ELSE Some([type |-> "ZoneModeChanged", zone_id |-> scope.id,
                      name |-> zone_name,
                      mode |-> Unwrap(HvacMode_from_lennox_str(Unwrap(as_str(new_value))))])
      [] scope.kind = "Zone" /\ path = <<"status", "tempOperation">> ->
           LET parsed == IF as_str(new_value) = None THEN None
                         ELSE OperatingState_from_lennox_str(Unwrap(as_str(new_value)))
           IN Some([type |-> "ZoneOperatingChanged", zone_id |-> scope.id,
                    name |-> zone_name, state |-> UnwrapOr(parsed, "Idle"),
                    aux |-> UnwrapOr(GetBool(status, "aux"), FALSE)])
      [] scope.kind = "Zone" /\ path \in {<<"status", "period", "hsp">>,
                                          <<"status", "period", "csp">>} ->
           Some([type |-> "ZoneSetpointsChanged", zone_id |-> scope.id,
                 name |-> zone_name,
                 heat |-> try_build_temperature("hsp", period),
                 cool |-> try_build_temperature("csp", period)])
      [] scope.kind = "Zone" /\ path \in {<<"status", "period", "fanMode">>,
                                          <<"status", "fan">>} ->
           LET fan_mode_str == GetStr(period, "fanMode")
               parsed == IF fan_mode_str = None THEN None
                         ELSE FanMode_from_lennox_str(Unwrap(fan_mode_str))
           IN Some([type |-> "ZoneFanChanged", zone_id |-> scope.id,
                    name |-> zone_name, mode |-> UnwrapOr(parsed, "Auto"),
                    running |-> UnwrapOr(GetBool(status, "fan"), FALSE)])
      [] OTHER -> None

generic_event(scope, path, value) ==
    LET leaf == IF path = <<>> THEN "" ELSE path[Len(path)] IN
    IF is_celsius_companion(leaf) THEN None
    ELSE IF value.t \notin {"num", "str", "bool"} THEN None
    ELSE Some([type |-> scope.kind \o (CASE value.t = "num" -> "Numeric"
                                         [] value.t = "str" -> "String"
                                         [] value.t = "bool" -> "Bool"),
               id |-> scope.id, path |-> path, value |-> value])

\* The lookup that keeps the generic event next to the typed one.
RECURSIVE ClassifyChanges_both(_, _, _, _)
ClassifyChanges_both(scope, changes, zone_name, parent_obj) ==
    IF changes = <<>> THEN <<>>
    ELSE LET ch == Head(changes)
         IN map_typed_event(scope, ch.path, ch.new, zone_name, parent_obj)
            \o generic_event(scope, ch.path, ch.new)
            \o ClassifyChanges_both(scope, Tail(changes), zone_name, parent_obj)

\* The two-phase lookup of the reconciliation loop: typed first, else generic.
RECURSIVE ClassifyChanges(_, _, _, _)
ClassifyChanges(scope, changes, zone_name, parent_obj) ==
    IF changes = <<>> THEN <<>>
    ELSE LET ch == Head(changes)
             typed == map_typed_event(scope, ch.path, ch.new, zone_name, parent_obj)
             evt == IF typed # None THEN typed ELSE generic_event(scope, ch.path, ch.new)
         IN evt \o ClassifyChanges(scope, Tail(changes), zone_name, parent_obj)

\* The equipment scope has no typed table.
RECURSIVE GenericChanges(_, _)
GenericChanges(scope, changes) ==
    IF changes = <<>> THEN <<>>
    ELSE generic_event(scope, Head(changes).path, Head(changes).new)
         \o GenericChanges(scope, Tail(changes))

----------------------------------------------------------------------------
(* client.rs: the previous-payload mirror *)

RECURSIVE deep_merge(_, _)
deep_merge(target, source) ==
    IF is_object(target) /\ is_object(source)
    THEN JObj([k \in (DOMAIN target.o) \cup (DOMAIN source.o) |->
                 IF k \in DOMAIN source.o
                 THEN deep_merge(IF k \in DOMAIN target.o THEN target.o[k] ELSE JNull,
                                 source.o[k])
                 ELSE target.o[k]])
    ELSE source

\* target is the mirror (an object); returns the mirror with key merged.
merge_json(target, key, new_data) ==
    JObj([k \in (DOMAIN target.o) \cup {key} |->
            IF k = key
            THEN deep_merge(IF key \in DOMAIN target.o THEN target.o[key] ELSE JNull,
                            new_data)
            ELSE target.o[k]])

\* entry(section).or_insert_with(empty object), then insert(id, data) when the
\* entry is an object: the stored subtree is replaced, not merged.
InsertInto(target, section, id_key, data) ==
    LET cur == IF section \in DOMAIN target.o THEN target.o[section] ELSE EmptyObject
        upd == IF is_object(cur)
               THEN JObj([k \in (DOMAIN cur.o) \cup {id_key} |->
                            IF k = id_key THEN data ELSE cur.o[k]])
               ELSE cur
    IN JObj([k \in (DOMAIN target.o) \cup {section} |->
               IF k = section THEN upd ELSE target.o[k]])

----------------------------------------------------------------------------
(* client.rs: DiagEnforcer *)

DIAG_COOLDOWN_SECS == 300
DIAG_MAX_ATTEMPTS_PER_HOUR == 3
HOUR_SECS == 3600

DiagEnforcer_new(level, t) ==
    [target_level |-> level, last_sent |-> None, attempts_this_hour |-> 0,
     hour_start |-> t]

\* should_send without the cap on the attempts of the hour.
should_send_uncapped(e, t) ==
    LET rolled == IF t - e.hour_start >= HOUR_SECS
                  THEN [e EXCEPT !.attempts_this_hour = 0, !.hour_start = t]
                  ELSE e
    IN [enforcer |-> rolled,
        answer |-> ~(IsSome(rolled.last_sent)
                     /\ t - Unwrap(rolled.last_sent) < DIAG_COOLDOWN_SECS)]

\* should_send(&mut self): the window roll-over is kept even when the answer
\* is false.  Returns the enforcer after the call and the answer.
should_send(e, t) ==
    LET rolled == IF t - e.hour_start >= HOUR_SECS
                  THEN [e EXCEPT !.attempts_this_hour = 0, !.hour_start = t]
                  ELSE e
        answer == IF rolled.attempts_this_hour >= DIAG_MAX_ATTEMPTS_PER_HOUR THEN FALSE
                  ELSE IF IsSome(rolled.last_sent)
                          /\ t - Unwrap(rolled.last_sent) < DIAG_COOLDOWN_SECS THEN FALSE
                  ELSE TRUE
    IN [enforcer |-> rolled, answer |-> answer]

\* attempts_this_hour is a u8; it never gets near 255 (see should_send).
record_sent(e, t) ==
    [e EXCEPT !.last_sent = Some(t), !.attempts_this_hour = @ + 1]

\* reset that forgets the last send but leaves the window as it is.
reset_keeps_window(e, t) == [e EXCEPT !.last_sent = None]

reset(e, t) ==
    [e EXCEPT !.last_sent = None, !.attempts_this_hour = 0, !.hour_start = t]

----------------------------------------------------------------------------
(* client.rs: applying a payload to the domain model *)

\* ensure_system: the index (1-based) of the system with the id, pushing a
\* default one when there is none.
ensure_system(syss, sid) ==
    IF PositionOf(syss, sid) # 0
    THEN [systems |-> syss, idx |-> PositionOf(syss, sid)]
    ELSE [systems |-> Append(syss, DefaultSystem(sid)), idx |-> Len(syss) + 1]

\* The choice made on the Fahrenheit member first: a payload that reports it
\* gives the temperature by it alone.
TemperatureFrom_fahrenheit_first(status, f_field, c_field, old) ==
    IF IsSome(GetF64(status, f_field))
    THEN Some(from_fahrenheit(Unwrap(GetF64(status, f_field))))
    ELSE IF IsSome(GetF64(status, c_field))
    THEN Some(from_celsius(Unwrap(GetF64(status, c_field))))
    ELSE old

\* The three-way choice between the (F, C) pair, C alone and F alone.
TemperatureFrom(status, f_field, c_field, old) ==
    IF IsSome(GetF64(status, f_field)) /\ IsSome(GetF64(status, c_field))
    THEN Some(from_pair(Unwrap(GetF64(status, f_field)), Unwrap(GetF64(status, c_field))))
    ELSE IF IsSome(GetF64(status, c_field))
    THEN Some(from_celsius(Unwrap(GetF64(status, c_field))))
    ELSE IF IsSome(GetF64(status, f_field))
    THEN Some(from_fahrenheit(Unwrap(GetF64(status, f_field))))
    ELSE old

PointerStr(data, path) ==
    IF IsSome(Pointer(data, path)) THEN as_str(Unwrap(Pointer(data, path))) ELSE None

PointerU64(data, path) ==
    IF IsSome(Pointer(data, path)) THEN as_u64(Unwrap(Pointer(data, path))) ELSE None

update_system_from_json(system, data) ==
    LET status == PointerOr(data, <<"status">>, JNull)
        dl == GetU64(status, "diagLevel")
    IN [system EXCEPT
          !.name = UnwrapOr(PointerStr(data, <<"config", "name">>), @),
          !.product_type = UnwrapOr(PointerStr(data, <<"config", "options", "productType">>), @),
          !.temperature_unit =
              UnwrapOr(PointerStr(data, <<"config", "options", "temperatureUnit">>), @),
          !.indoor_unit_type =
              UnwrapOr(PointerStr(data, <<"config", "options", "indoorUnitType">>), @),
          !.outdoor_unit_type =
              UnwrapOr(PointerStr(data, <<"config", "options", "outdoorUnitType">>), @),
          !.outdoor_temperature =
              TemperatureFrom(status, "outdoorTemperature", "outdoorTemperatureC", @),
          !.single_setpoint_mode = UnwrapOr(GetBool(status, "singleSetpointMode"), @),
          !.diag_level = IF IsSome(dl) THEN Some(AsU8(Unwrap(dl))) ELSE @]

\* The fields of one zone, from its subtree.
UpdateZone(zone, zone_id, data) ==
    LET status == PointerOr(data, <<"status">>, JNull)
        period == PointerOr(status, <<"period">>, JNull)
        name == IF IsSome(GetStr(data, "name")) THEN GetStr(data, "name")
                ELSE PointerStr(data, <<"config", "name">>)
        mode_str == GetStr(period, "systemMode")
        fan_mode_str == GetStr(period, "fanMode")
        op_str == GetStr(status, "tempOperation")
        sched_id == PointerU64(data, <<"config", "scheduleId">>)
        hold == Pointer(data, <<"config", "scheduleHold">>)
        hold_sched == IF IsSome(hold) THEN UnwrapOr(GetU64(Unwrap(hold), "scheduleId"), 0)
                      ELSE 0
        enabled == IF IsSome(hold) THEN UnwrapOr(GetBool(Unwrap(hold), "enabled"), FALSE)
                   ELSE FALSE
    IN [zone EXCEPT
          !.name = UnwrapOr(name, @),
          !.temperature = TemperatureFrom(status, "temperature", "temperatureC", @),
          !.humidity = IF IsSome(GetF64(status, "humidity"))
                       THEN GetF64(status, "humidity") ELSE @,
          !.mode = IF IsSome(mode_str) THEN HvacMode_from_lennox_str(Unwrap(mode_str))
                   ELSE @,
          !.heat_setpoint =
              IF IsSome(GetF64(period, "hsp")) /\ IsSome(GetF64(period, "hspC"))
              THEN Some(from_pair(Unwrap(GetF64(period, "hsp")),
                                  Unwrap(GetF64(period, "hspC"))))
              ELSE @,
          !.cool_setpoint =
              IF IsSome(GetF64(period, "csp")) /\ IsSome(GetF64(period, "cspC"))
              THEN Some(from_pair(Unwrap(GetF64(period, "csp")),
                                  Unwrap(GetF64(period, "cspC"))))
              ELSE @,
          !.fan_mode = IF IsSome(fan_mode_str)
                       THEN FanMode_from_lennox_str(Unwrap(fan_mode_str)) ELSE @,
          !.fan_running = UnwrapOr(GetBool(status, "fan"), @),
          !.operating = IF IsSome(op_str)
                        THEN UnwrapOr(OperatingState_from_lennox_str(Unwrap(op_str)), "Idle")
                        ELSE @,
          !.aux_heat = UnwrapOr(GetBool(status, "aux"), @),
          !.schedule_id = IF IsSome(sched_id) THEN Some(AsU32(Unwrap(sched_id)))
                          ELSE @,
          !.override_active =
              IF IsSome(hold)
              THEN AsU32(hold_sched) = override_schedule_id(zone_id) /\ enabled
              ELSE @]

\* update_zone_from_json: the zone is created by its first mention.
update_zone_from_json(system, zone_id, data) ==
    LET pos == PositionOf(system.zones, zone_id)
        zones == IF pos = 0 THEN Append(system.zones, DefaultZone(zone_id))
                 ELSE system.zones
        at == IF pos = 0 THEN Len(zones) ELSE pos
    IN [system EXCEPT !.zones = [zones EXCEPT ![at] = UpdateZone(@, zone_id, data)]]

----------------------------------------------------------------------------
(* client.rs: equipment parameters *)

\* str::parse::<f64>() on the strings the model uses.  A string of
\* NumericStrings parses to a finite number and a string of NaNStrings to
\* NaN; anything else fails.
NaNStrings == {"NaN"}

NumericStrings ==
    [s \in {"0", "1", "2", "30", "60", "65", "90", "240", "300"} |->
        CASE s = "0" -> 0 [] s = "1" -> 1 [] s = "2" -> 2 [] s = "30" -> 30
          [] s = "60" -> 60 [] s = "65" -> 65 [] s = "90" -> 90
          [] s = "240" -> 240 [] s = "300" -> 300]

\* The finite result of the parse, if it has one.
ParseF64(s) == IF s \in DOMAIN NumericStrings THEN Some(NumericStrings[s]) ELSE None

ParseField(range, key, d) ==
    IF IsSome(GetStr(range, key)) THEN UnwrapOr(ParseF64(Unwrap(GetStr(range, key))), d)
    ELSE d

parse_descriptor(param_data) ==
    LET kind == GetStr(param_data, "descriptor")
        range == PointerOr(param_data, <<"range">>, JNull)
        radio == Get(param_data, "radio")
    IN
    IF kind = Some("range")
    THEN [kind |-> "Range", min |-> ParseField(range, "min", 0),
          max |-> ParseField(range, "max", 0), inc |-> ParseField(range, "inc", 1),
          unit |-> UnwrapOr(GetStr(param_data, "unit"), "")]
    ELSE IF kind = Some("radio")
    THEN [kind |-> "Radio",
          options |-> IF IsSome(radio) /\ is_object(Unwrap(radio))
                      THEN [id \in {k \in DOMAIN Unwrap(radio).o :
                                       Unwrap(radio).o[k].t = "str"} |->
                              Unwrap(radio).o[id].s]
                      ELSE NoKeys]
    ELSE [kind |-> "String",
          max_len |-> IF IsSome(GetU64(param_data, "string_max"))
                      THEN Some(AsU32(Unwrap(GetU64(param_data, "string_max"))))
                      ELSE None]

\* The first option id, in key order, whose label is the value.
RECURSIVE FirstLabelled(_, _, _)
FirstLabelled(ids, options, value) ==
    IF ids = <<>> THEN None
    ELSE IF options[Head(ids)] = value THEN Some(Head(ids))
    ELSE FirstLabelled(Tail(ids), options, value)

\* validate_parameter: Ok(the string to send) or Err(reason).
validate_parameter(param, value) ==
    LET d == param.descriptor IN
    CASE d.kind = "Range" ->
           LET v == ParseF64(value) IN
           \* v = NaN: v < min, v > max and |reconstructed - v| > 1e-9 are all false.
           IF value \in NaNStrings THEN [ok |-> TRUE, value |-> value]
           ELSE IF v = None THEN [ok |-> FALSE, value |-> "not a number"]
           ELSE IF Unwrap(v) < d.min \/ Unwrap(v) > d.max
           THEN [ok |-> FALSE, value |-> "out of range"]
           ELSE IF d.inc > 0
                   /\ d.min + RoundDiv(Unwrap(v) - d.min, d.inc) * d.inc # Unwrap(v)
           THEN [ok |-> FALSE, value |-> "not a multiple"]
           ELSE [ok |-> TRUE, value |-> value]
      [] d.kind = "Radio" ->
           IF value \in DOMAIN d.options THEN [ok |-> TRUE, value |-> value]
           ELSE LET id == FirstLabelled(SelectKeys(KeyOrder, DOMAIN d.options),
                                        d.options, value)
                IN IF IsSome(id) THEN [ok |-> TRUE, value |-> Unwrap(id)]
                   ELSE [ok |-> FALSE, value |-> "unknown option"]
      [] d.kind = "String" ->
           IF IsSome(d.max_len) /\ Len(value) > Unwrap(d.max_len)
           THEN [ok |-> FALSE, value |-> "too long"]
           ELSE [ok |-> TRUE, value |-> value]

\* The loop over equipment.parameters: inserts every parameter and collects
\* a ParameterChanged for each known parameter whose value string changed.
RECURSIVE ApplyParameters(_, _, _)
ApplyParameters(equipment, params, events) ==
    IF params = <<>> THEN [equipment |-> equipment, events |-> events]
    ELSE LET param_data == Get(Head(params), "parameter")
             pid_opt == IF IsSome(param_data) THEN GetU64(Unwrap(param_data), "pid")
                        ELSE None
         IN
         IF param_data = None \/ pid_opt = None
         THEN ApplyParameters(equipment, Tail(params), events)
         ELSE LET pd == Unwrap(param_data)
                  pid == AsU16(Unwrap(pid_opt))
                  name == UnwrapOr(GetStr(pd, "name"), "")
                  value == UnwrapOr(GetStr(pd, "value"), "")
                  prev_value == IF pid \in DOMAIN equipment.parameters
                                THEN Some(equipment.parameters[pid].value) ELSE None
                  param == [pid |-> pid, name |-> name, value |-> value,
                            enabled |-> UnwrapOr(GetBool(pd, "enabled"), FALSE),
                            descriptor |-> parse_descriptor(pd)]
                  inserted == [equipment EXCEPT !.parameters =
                                 [q \in (DOMAIN @) \cup {pid} |->
                                    IF q = pid THEN param ELSE @[q]]]
                  fired == IF prev_value # Some(value) /\ IsSome(prev_value)
                           THEN <<[type |-> "ParameterChanged", equipment_id |-> equipment.id,
                                   pid |-> pid, name |-> name, value |-> value]>>
                           ELSE <<>>
              IN ApplyParameters(inserted, Tail(params), events \o fired)

update_equipment_from_json(system, equip_id, data, events) ==
    LET pos == PositionOf(system.equipments, equip_id)
        equipments == IF pos = 0 THEN Append(system.equipments, DefaultEquipment(equip_id))
                      ELSE system.equipments
        at == IF pos = 0 THEN Len(equipments) ELSE pos
        et == PointerU64(data, <<"equipment", "equipType">>)
        typed == [equipments[at] EXCEPT
                    !.equip_type = IF IsSome(et) THEN AsU16(Unwrap(et)) ELSE @]
        params == Pointer(data, <<"equipment", "parameters">>)
        applied == IF IsSome(params) /\ Unwrap(params).t = "arr"
                   THEN ApplyParameters(typed, Unwrap(params).a, events)
                   ELSE [equipment |-> typed, events |-> events]
    IN [system |-> [system EXCEPT !.equipments = [equipments EXCEPT ![at] = applied.equipment]],
        events |-> applied.events]

----------------------------------------------------------------------------
(* client.rs: process_data, one section at a time.  The value threaded      *)
(* through the sections is c = [systems, previous_json, events, snaps]:     *)
(* the model, the mirror, all_events and snapshot_system_indices.           *)

SystemSection(c, data) ==
    IF Get(data, "system") = None THEN c
    ELSE LET system_data == Unwrap(Get(data, "system"))
             es == ensure_system(c.systems, "0")
             prev_system == PointerOr(c.previous_json, <<"system">>, EmptyObject)
             changes == diff_json(prev_system, system_data, <<>>)
         IN [systems |-> [es.systems EXCEPT
                            ![es.idx] = update_system_from_json(@, system_data)],
             previous_json |-> merge_json(c.previous_json, "system", system_data),
             events |-> c.events \o ClassifyChanges(SystemScope, changes, "", system_data),
             snaps |-> c.snaps \cup {es.idx}]

OccupancySection(c, data) ==
    IF Get(data, "occupancy") = None THEN c
    ELSE LET occ == Unwrap(Get(data, "occupancy"))
             es == ensure_system(c.systems, "0")
             system == es.systems[es.idx]
             prev_away == is_away(system)
             sa == Pointer(occ, <<"smartAway">>)
             updated ==
                 [system EXCEPT
                    !.manual_away = UnwrapOr(GetBool(occ, "manualAway"), @),
                    !.smart_away_enabled =
                        IF IsSome(sa) THEN UnwrapOr(GetBool(Unwrap(sa), "enabled"), @) ELSE @,
                    !.smart_away_setpoint_state =
                        IF IsSome(sa) THEN UnwrapOr(GetStr(Unwrap(sa), "setpointState"), @)
                        ELSE @]
             new_away == is_away(updated)
         IN [systems |-> [es.systems EXCEPT ![es.idx] = updated],
             previous_json |-> merge_json(c.previous_json, "occupancy", occ),
             events |-> c.events \o
                        (IF new_away # prev_away
                         THEN <<[type |-> "AwayModeChanged", away |-> new_away]>>
                         ELSE <<>>),
             snaps |-> c.snaps \cup {es.idx}]

\* One entry of the zones array.
ZoneEntry(c, zone_data) ==
    IF GetU64(zone_data, "id") = None THEN c
    ELSE LET zone_id == AsU8(Unwrap(GetU64(zone_data, "id")))
             es == ensure_system(c.systems, "0")
             system == es.systems[es.idx]
             prev_zone == PointerOr(c.previous_json, <<"zones", ToString(zone_id)>>,
                                    EmptyObject)
             changes == diff_json(prev_zone, zone_data, <<>>)
             named == IF IsSome(Pointer(zone_data, <<"name">>))
                      THEN Pointer(zone_data, <<"name">>)
                      ELSE Pointer(zone_data, <<"config", "name">>)
             known == FindById(system.zones, zone_id)
             zone_name == IF IsSome(named) /\ IsSome(as_str(Unwrap(named)))
                          THEN Unwrap(as_str(Unwrap(named)))
                          ELSE IF IsSome(known) THEN Unwrap(known).name ELSE ""
             prev_override == IF IsSome(known) THEN Some(Unwrap(known).override_active)
                              ELSE None
             updated == update_zone_from_json(system, zone_id, zone_data)
             zone_ref == Unwrap(FindById(updated.zones, zone_id))
         IN [systems |-> [es.systems EXCEPT ![es.idx] = updated],
             previous_json |-> InsertInto(c.previous_json, "zones", ToString(zone_id),
                                          zone_data),
             events |-> c.events
                        \o ClassifyChanges(ZoneScope(zone_id), changes, zone_name, zone_data)
                        \o (IF Some(zone_ref.override_active) # prev_override
                            THEN <<[type |-> "ZoneHoldChanged", zone_id |-> zone_id,
                                    name |-> zone_name,
                                    active |-> zone_ref.override_active]>>
                            ELSE <<>>),
             snaps |-> c.snaps \cup {es.idx}]

RECURSIVE ZoneEntries(_, _)
ZoneEntries(c, zones_arr) ==
    IF zones_arr = <<>> THEN c
    ELSE ZoneEntries(ZoneEntry(c, Head(zones_arr)), Tail(zones_arr))

ZonesSection(c, data) ==
    IF IsSome(Get(data, "zones")) /\ Unwrap(Get(data, "zones")).t = "arr"
    THEN ZoneEntries(c, Unwrap(Get(data, "zones")).a)
    ELSE c

\* One entry of the equipments array.
EquipmentEntry(c, equip_data) ==
    IF GetU64(equip_data, "id") = None THEN c
    ELSE LET equip_id == AsU16(Unwrap(GetU64(equip_data, "id")))
             prev_equip == PointerOr(c.previous_json, <<"equipments", ToString(equip_id)>>,
                                     EmptyObject)
             changes == diff_json(prev_equip, equip_data, <<>>)
             generic == GenericChanges(EquipmentScope(equip_id), changes)
             es == ensure_system(c.systems, "0")
             upd == update_equipment_from_json(es.systems[es.idx], equip_id, equip_data,
                                               c.events \o generic)
         IN [systems |-> [es.systems EXCEPT ![es.idx] = upd.system],
             previous_json |-> InsertInto(c.previous_json, "equipments",
                                          ToString(equip_id), equip_data),
             events |-> upd.events,
             snaps |-> c.snaps \cup {es.idx}]

RECURSIVE EquipmentEntries(_, _)
EquipmentEntries(c, equip_arr) ==
    IF equip_arr = <<>> THEN c
    ELSE EquipmentEntries(EquipmentEntry(c, Head(equip_arr)), Tail(equip_arr))

EquipmentsSection(c, data) ==
    IF IsSome(Get(data, "equipments")) /\ Unwrap(Get(data, "equipments")).t = "arr"
    THEN EquipmentEntries(c, Unwrap(Get(data, "equipments")).a)
    ELSE c

\* The loop over alerts.active: acc = [hp, aux, events].
RECURSIVE AlertEntries(_, _)
AlertEntries(acc, active) ==
    IF active = <<>> THEN acc
    ELSE LET alert == Get(Head(active), "alert")
             code_opt == IF IsSome(alert) THEN GetU64(Unwrap(alert), "code") ELSE None
         IN
         IF alert = None \/ code_opt = None THEN AlertEntries(acc, Tail(active))
         ELSE LET code == AsU16(Unwrap(code_opt))
                  is_active == UnwrapOr(GetBool(Unwrap(alert), "isStillActive"), FALSE)
              IN AlertEntries(
                     [hp |-> IF code = 18 THEN is_active ELSE acc.hp,
                      aux |-> IF code = 19 THEN is_active ELSE acc.aux,
                      events |-> Append(acc.events,
                                        [type |-> "AlertChanged", code |-> code,
                                         active |-> is_active])],
                     Tail(active))

AlertsSection_carried(c, data) ==
    LET alerts_data == Get(data, "alerts")
        active == IF IsSome(alerts_data) THEN Get(Unwrap(alerts_data), "active") ELSE None
    IN
    IF active = None \/ Unwrap(active).t # "arr" THEN c
    ELSE LET es == ensure_system(c.systems, "0")
             system == es.systems[es.idx]
             acc == AlertEntries([hp |-> system.hp_low_ambient_lockout,
                                  aux |-> system.aux_heat_high_ambient_lockout,
                                  events |-> c.events],
                                 Unwrap(active).a)
         IN [systems |-> [es.systems EXCEPT
                            ![es.idx] = [system EXCEPT
                                           !.hp_low_ambient_lockout = acc.hp,
                                           !.aux_heat_high_ambient_lockout = acc.aux]],
             previous_json |-> c.previous_json,
             events |-> acc.events
                        \o (IF acc.hp # system.hp_low_ambient_lockout
                            THEN <<[type |-> "HpLockoutChanged", locked_out |-> acc.hp]>>
                            ELSE <<>>)
                        \o (IF acc.aux # system.aux_heat_high_ambient_lockout
                            THEN <<[type |-> "AuxLockoutChanged", locked_out |-> acc.aux]>>
                            ELSE <<>>),
             snaps |-> c.snaps \cup {es.idx}]

AlertsSection(c, data) ==
    LET alerts_data == Get(data, "alerts")
        active == IF IsSome(alerts_data) THEN Get(Unwrap(alerts_data), "active") ELSE None
    IN
    IF active = None \/ Unwrap(active).t # "arr" THEN c
    ELSE LET es == ensure_system(c.systems, "0")
             system == es.systems[es.idx]
             acc == AlertEntries([hp |-> FALSE, aux |-> FALSE, events |-> c.events],
                                 Unwrap(active).a)
         IN [systems |-> [es.systems EXCEPT
                            ![es.idx] = [system EXCEPT
                                           !.hp_low_ambient_lockout = acc.hp,
                                           !.aux_heat_high_ambient_lockout = acc.aux]],
             previous_json |-> c.previous_json,
             events |-> acc.events
                        \o (IF acc.hp # system.hp_low_ambient_lockout
                            THEN <<[type |-> "HpLockoutChanged", locked_out |-> acc.hp]>>
                            ELSE <<>>)
                        \o (IF acc.aux # system.aux_heat_high_ambient_lockout
                            THEN <<[type |-> "AuxLockoutChanged", locked_out |-> acc.aux]>>
                            ELSE <<>>),
             snaps |-> c.snaps \cup {es.idx}]

\* for event in all_events { for cb in event_callbacks { cb(event) } }
RECURSIVE EventCalls(_, _)
EventCalls(events, ncb) ==
    IF events = <<>> THEN <<>>
    ELSE [i \in 1..ncb |-> [kind |-> "event", cb |-> i, event |-> Head(events)]]
         \o EventCalls(Tail(events), ncb)

\* for sys_idx in snapshot_system_indices { for cb in snapshot_callbacks { cb(system) } }
\* The set iterates in no particular order; it never holds more than the one
\* index of system "0".
RECURSIVE SnapshotCalls(_, _, _)
SnapshotCalls(snaps, syss, ncb) ==
    IF snaps = {} THEN <<>>
    ELSE LET idx == CHOOSE i \in snaps : TRUE
             here == IF idx \in 1..Len(syss)
                     THEN [i \in 1..ncb |->
                             [kind |-> "snapshot", cb |-> i, system |-> syss[idx]]]
                     ELSE <<>>
         IN here \o SnapshotCalls(snaps \ {idx}, syss, ncb)

\* The sections with the alerts gone through first.
SectionOrder_alerts_first == <<"alerts", "system", "occupancy", "zones", "equipments">>

\* The sections of a payload, in the order process_data goes through them.
SectionOrder == <<"system", "occupancy", "zones", "equipments", "alerts">>

Section(name, c, data) ==
    CASE name = "system" -> SystemSection(c, data)
      [] name = "occupancy" -> OccupancySection(c, data)
      [] name = "zones" -> ZonesSection(c, data)
      [] name = "equipments" -> EquipmentsSection(c, data)
      [] name = "alerts" -> AlertsSection(c, data)

\* The value after one section is bound, as the only element of a set,
\* before the next section is gone through.
RECURSIVE Sections(_, _, _)
Sections(c, data, todo) ==
    IF todo = <<>> THEN c
    ELSE CHOOSE after \in {Sections(done, data, Tail(todo)) :
                              done \in {Section(Head(todo), c, data)}} : TRUE

\* self.systems.first().and_then(|s| s.diag_level)
current_level(syss) == IF syss = <<>> THEN None ELSE syss[1].diag_level

\* The diagnostic-level check after the sections: the enforcer is asked only
\* when the reported level of the first system is below the target.
DiagCheck(enforcer, level, reassert, t) ==
    IF IsSome(enforcer) /\ IsSome(level)
       /\ Unwrap(level) < Unwrap(enforcer).target_level
    THEN [enforcer |-> Some(should_send(Unwrap(enforcer), t).enforcer),
          reassert |-> IF should_send(Unwrap(enforcer), t).answer THEN TRUE ELSE reassert]
    ELSE [enforcer |-> enforcer, reassert |-> reassert]

\* The tail of process_data with the two loops exchanged: the snapshot
\* observers are called before the event observers.
AfterSections_snapshots_first(st, c, t, n_event_cb, n_snapshot_cb) ==
    [systems |-> c.systems,
     previous_json |-> c.previous_json,
     enforcer |-> DiagCheck(st.enforcer, current_level(c.systems), st.reassert, t).enforcer,
     reassert |-> DiagCheck(st.enforcer, current_level(c.systems), st.reassert, t).reassert,
     calls |-> SnapshotCalls(c.snaps, c.systems, n_snapshot_cb)
               \o EventCalls(c.events, n_event_cb)]

\* The tail of process_data: the level check, then the observers.
AfterSections(st, c, t, n_event_cb, n_snapshot_cb) ==
    [systems |-> c.systems,
     previous_json |-> c.previous_json,
     enforcer |-> DiagCheck(st.enforcer, current_level(c.systems), st.reassert, t).enforcer,
     reassert |-> DiagCheck(st.enforcer, current_level(c.systems), st.reassert, t).reassert,
     calls |-> EventCalls(c.events, n_event_cb)
               \o SnapshotCalls(c.snaps, c.systems, n_snapshot_cb)]

\* process_data(&mut self, data): st = [systems, previous_json, enforcer,
\* reassert]; returns the state after the payload and the observer calls made.
process_data(st, data, t, n_event_cb, n_snapshot_cb) ==
    AfterSections(st,
                  Sections([systems |-> st.systems, previous_json |-> st.previous_json,
                            events |-> <<>>, snaps |-> {}],
                           data, SectionOrder),
                  t, n_event_cb, n_snapshot_cb)

\* for data in &data_payloads { self.process_data(data) }
\* The state after one payload is bound as a value, the only element of a
\* set, so that each payload is worked out before the next one is begun.
RECURSIVE ProcessAll(_, _, _, _, _)
ProcessAll(st, payloads, t, n_event_cb, n_snapshot_cb) ==
    IF payloads = <<>> THEN st
    ELSE CHOOSE after \in
           {ProcessAll([systems |-> r.systems, previous_json |-> r.previous_json,
                        enforcer |-> r.enforcer, reassert |-> r.reassert,
                        calls |-> st.calls \o r.calls],
                       Tail(payloads), t, n_event_cb, n_snapshot_cb) :
              r \in {process_data(st, Head(payloads), t, n_event_cb, n_snapshot_cb)}} : TRUE

----------------------------------------------------------------------------
(* client.rs: results, requests and the helpers of the command methods *)

Ok == [tag |-> "Ok"]
NotConnected == [tag |-> "NotConnected"]
Http == [tag |-> "Http"]
InvalidZone(zone_id) == [tag |-> "InvalidZone", zone |-> zone_id]
InvalidSetpoints(h, c, d) ==
    [tag |-> "InvalidSetpoints", heat_c |-> h, cool_c |-> c, deadband_c |-> d]
InvalidParameter(equipment_id, pid, reason) ==
    [tag |-> "InvalidParameter", equipment_id |-> equipment_id, pid |-> pid,
     reason |-> reason]

\* One request handed to the transport, and whether the transport delivered it.
Request(kind, data, ok) == [req |-> kind, data |-> data, ok |-> ok]
NoData == [kind |-> "none"]

\* find_zone: the first zone with the id over all systems.
RECURSIVE FindZoneIn(_, _)
FindZoneIn(syss, zone_id) ==
    IF syss = <<>> THEN None
    ELSE IF IsSome(FindById(Head(syss).zones, zone_id))
         THEN FindById(Head(syss).zones, zone_id)
         ELSE FindZoneIn(Tail(syss), zone_id)

find_zone(syss, zone_id) == FindZoneIn(syss, zone_id)

\* systems.iter().flat_map(|s| &s.equipments).find(|e| e.id == equipment_id)
RECURSIVE FindEquipmentIn(_, _)
FindEquipmentIn(syss, equipment_id) ==
    IF syss = <<>> THEN None
    ELSE IF IsSome(FindById(Head(syss).equipments, equipment_id))
         THEN FindById(Head(syss).equipments, equipment_id)
         ELSE FindEquipmentIn(Tail(syss), equipment_id)

\* publish_command_logged without the test of the connected flag.
publish_command_logged_unguarded(conn, r, data, oks) ==
    IF r.result.tag # "Ok" THEN r
    ELSE LET ok == oks[Len(r.sent) + 1] IN
         [result |-> IF ok THEN Ok ELSE Http,
          sent |-> Append(r.sent, Request("Publish", data, ok))]

\* publish_command_logged: r = [result, sent] is the call so far; oks is the
\* transport's answer to each publish of the call, in order.
publish_command_logged(conn, r, data, oks) ==
    IF r.result.tag # "Ok" THEN r
    ELSE IF ~conn THEN [result |-> NotConnected, sent |-> r.sent]
    ELSE LET ok == oks[Len(r.sent) + 1] IN
         [result |-> IF ok THEN Ok ELSE Http,
          sent |-> Append(r.sent, Request("Publish", data, ok))]

\* The comparison of ensure_manual_schedule turned around: the switch goes out
\* for a zone already on its manual schedule and for no other.
ensure_manual_schedule_inverted(conn, syss, r, zone_id, oks) ==
    IF r.result.tag # "Ok" THEN r
    ELSE IF find_zone(syss, zone_id) = None
    THEN [result |-> InvalidZone(zone_id), sent |-> r.sent]
    ELSE IF Unwrap(find_zone(syss, zone_id)).schedule_id = Some(manual_schedule_id(zone_id))
    THEN publish_command_logged(conn, r, set_manual_mode_data(zone_id), oks)
    ELSE r

ensure_manual_schedule(conn, syss, r, zone_id, oks) ==
    IF r.result.tag # "Ok" THEN r
    ELSE IF find_zone(syss, zone_id) = None
    THEN [result |-> InvalidZone(zone_id), sent |-> r.sent]
    ELSE IF Unwrap(find_zone(syss, zone_id)).schedule_id # Some(manual_schedule_id(zone_id))
    THEN publish_command_logged(conn, r, set_manual_mode_data(zone_id), oks)
    ELSE r

Start == [result |-> Ok, sent |-> <<>>]

----------------------------------------------------------------------------
(* client.rs: the command methods, as functions of the client state *)

set_hvac_mode(conn, syss, zone_id, mode, oks) ==
    LET r1 == ensure_manual_schedule(conn, syss, Start, zone_id, oks)
        data == set_hvac_mode_data(manual_schedule_id(zone_id), HvacMode_as_lennox_str(mode))
    IN publish_command_logged(conn, r1, data, oks)

set_fan_mode(conn, syss, zone_id, mode, oks) ==
    LET r1 == ensure_manual_schedule(conn, syss, Start, zone_id, oks)
        data == set_fan_mode_data(manual_schedule_id(zone_id), FanMode_as_lennox_str(mode))
    IN publish_command_logged(conn, r1, data, oks)

\* The cool setpoint left as recorded, whatever the new heat setpoint.
HeatCompanion_unadjusted(zone, hsp_c) ==
    IF IsSome(zone.cool_setpoint) THEN Unwrap(zone.cool_setpoint)
    ELSE from_celsius(hsp_c + DEADBAND_C)

\* The cool setpoint sent with a new heat setpoint.
HeatCompanion(zone, hsp_c) ==
    IF IsSome(zone.cool_setpoint)
    THEN LET c == Unwrap(zone.cool_setpoint)
             min_cool == hsp_c + DEADBAND_C
         IN IF to_lennox_celsius(c) < min_cool THEN from_celsius(min_cool) ELSE c
    ELSE from_celsius(hsp_c + DEADBAND_C)

\* The heat setpoint left as recorded, whatever the new cool setpoint.
CoolCompanion_unadjusted(zone, csp_c) ==
    IF IsSome(zone.heat_setpoint) THEN Unwrap(zone.heat_setpoint)
    ELSE from_celsius(csp_c - DEADBAND_C)

\* The heat setpoint sent with a new cool setpoint.
CoolCompanion(zone, csp_c) ==
    IF IsSome(zone.heat_setpoint)
    THEN LET h == Unwrap(zone.heat_setpoint)
             max_heat == csp_c - DEADBAND_C
         IN IF to_lennox_celsius(h) > max_heat THEN from_celsius(max_heat) ELSE h
    ELSE from_celsius(csp_c - DEADBAND_C)

set_heat_setpoint(conn, syss, zone_id, temp, oks) ==
    IF find_zone(syss, zone_id) = None
    THEN [result |-> InvalidZone(zone_id), sent |-> <<>>]
    ELSE LET zone == Unwrap(find_zone(syss, zone_id))
             hsp_c == to_lennox_celsius(temp)
             hsp_f == to_lennox_fahrenheit(temp)
             cool == HeatCompanion(zone, hsp_c)
             r1 == ensure_manual_schedule(conn, syss, Start, zone_id, oks)
             data == set_setpoint_data(manual_schedule_id(zone_id), hsp_f, hsp_c,
                                       to_lennox_fahrenheit(cool), to_lennox_celsius(cool))
         IN publish_command_logged(conn, r1, data, oks)

set_cool_setpoint(conn, syss, zone_id, temp, oks) ==
    IF find_zone(syss, zone_id) = None
    THEN [result |-> InvalidZone(zone_id), sent |-> <<>>]
    ELSE LET zone == Unwrap(find_zone(syss, zone_id))
             csp_c == to_lennox_celsius(temp)
             csp_f == to_lennox_fahrenheit(temp)
             heat == CoolCompanion(zone, csp_c)
             r1 == ensure_manual_schedule(conn, syss, Start, zone_id, oks)
             data == set_setpoint_data(manual_schedule_id(zone_id),
                                       to_lennox_fahrenheit(heat), to_lennox_celsius(heat),
                                       csp_f, csp_c)
         IN publish_command_logged(conn, r1, data, oks)

\* set_setpoints rejecting a pair exactly one deadband apart as well.
set_setpoints_strict(conn, syss, zone_id, heat, cool, oks) ==
    LET hsp_c == to_lennox_celsius(heat)
        csp_c == to_lennox_celsius(cool)
    IN IF csp_c <= hsp_c + DEADBAND_C
       THEN [result |-> InvalidSetpoints(hsp_c, csp_c, DEADBAND_C), sent |-> <<>>]
       ELSE IF find_zone(syss, zone_id) = None
       THEN [result |-> InvalidZone(zone_id), sent |-> <<>>]
       ELSE publish_command_logged(
                conn, ensure_manual_schedule(conn, syss, Start, zone_id, oks),
                set_setpoint_data(manual_schedule_id(zone_id), to_lennox_fahrenheit(heat),
                                  hsp_c, to_lennox_fahrenheit(cool), csp_c),
                oks)

\* set_setpoints with the deadband checked after the schedule switch.
set_setpoints_late_check(conn, syss, zone_id, heat, cool, oks) ==
    LET hsp_c == to_lennox_celsius(heat)
        csp_c == to_lennox_celsius(cool)
        r1 == ensure_manual_schedule(conn, syss, Start, zone_id, oks)
    IN IF r1.result.tag = "Ok" /\ csp_c < hsp_c + DEADBAND_C
       THEN [result |-> InvalidSetpoints(hsp_c, csp_c, DEADBAND_C), sent |-> r1.sent]
       ELSE publish_command_logged(
                conn, r1,
                set_setpoint_data(manual_schedule_id(zone_id), to_lennox_fahrenheit(heat),
                                  hsp_c, to_lennox_fahrenheit(cool), csp_c),
                oks)

set_setpoints(conn, syss, zone_id, heat, cool, oks) ==
    LET hsp_c == to_lennox_celsius(heat)
        csp_c == to_lennox_celsius(cool)
    IN IF csp_c < hsp_c + DEADBAND_C
       THEN [result |-> InvalidSetpoints(hsp_c, csp_c, DEADBAND_C), sent |-> <<>>]
       ELSE IF find_zone(syss, zone_id) = None
       THEN [result |-> InvalidZone(zone_id), sent |-> <<>>]
       ELSE LET r1 == ensure_manual_schedule(conn, syss, Start, zone_id, oks)
                data == set_setpoint_data(manual_schedule_id(zone_id),
                                          to_lennox_fahrenheit(heat), hsp_c,
                                          to_lennox_fahrenheit(cool), csp_c)
            IN publish_command_logged(conn, r1, data, oks)

set_away(conn, away, oks) ==
    publish_command_logged(conn, Start, set_manual_away_data(away), oks)

set_schedule_hold(conn, syss, zone_id, hold, oks) ==
    IF find_zone(syss, zone_id) = None
    THEN [result |-> InvalidZone(zone_id), sent |-> <<>>]
    ELSE publish_command_logged(conn, Start, set_schedule_hold_data(zone_id, hold), oks)

\* set_equipment_parameter without the test of the enabled flag.
set_equipment_parameter_any_enabled(conn, syss, equipment_id, pid, value, oks) ==
    LET equipment == FindEquipmentIn(syss, equipment_id) IN
    IF equipment = None
    THEN [result |-> InvalidParameter(equipment_id, pid, "equipment not found"),
          sent |-> <<>>]
    ELSE IF pid \notin DOMAIN Unwrap(equipment).parameters
    THEN [result |-> InvalidParameter(equipment_id, pid, "parameter not found"),
          sent |-> <<>>]
    ELSE LET param == Unwrap(equipment).parameters[pid]
             validated == validate_parameter(param, value)
         IN IF FALSE
            THEN [result |-> InvalidParameter(equipment_id, pid, "parameter is read-only"),
                  sent |-> <<>>]
            ELSE IF ~validated.ok
            THEN [result |-> InvalidParameter(equipment_id, pid, validated.value),
                  sent |-> <<>>]
            ELSE publish_command_logged(
                     conn, Start,
                     set_parameter_data(Unwrap(equipment).equip_type, pid, validated.value),
                     oks)

set_equipment_parameter(conn, syss, equipment_id, pid, value, oks) ==
    LET equipment == FindEquipmentIn(syss, equipment_id) IN
    IF equipment = None
    THEN [result |-> InvalidParameter(equipment_id, pid, "equipment not found"),
          sent |-> <<>>]
    ELSE IF pid \notin DOMAIN Unwrap(equipment).parameters
    THEN [result |-> InvalidParameter(equipment_id, pid, "parameter not found"),
          sent |-> <<>>]
    ELSE LET param == Unwrap(equipment).parameters[pid]
             validated == validate_parameter(param, value)
         IN IF ~param.enabled
            THEN [result |-> InvalidParameter(equipment_id, pid, "parameter is read-only"),
                  sent |-> <<>>]
            ELSE IF ~validated.ok
            THEN [result |-> InvalidParameter(equipment_id, pid, validated.value),
                  sent |-> <<>>]
            ELSE publish_command_logged(
                     conn, Start,
                     set_parameter_data(Unwrap(equipment).equip_type, pid, validated.value),
                     oks)

----------------------------------------------------------------------------
(* The client as a state machine *)

NoArg == [none |-> TRUE]
NoCall == [op |-> "none", arg |-> NoArg, result |-> Ok]
Quiet == last.op = "none"

\* S30ClientBuilder::build for a builder with the given diagnostic level
\* (an Option) and numbers of observers.
Build(level, n_event_cb, n_snapshot_cb) ==
    /\ connected = FALSE
    /\ systems = <<>>
    /\ previous_json = EmptyObject
    /\ event_callbacks = n_event_cb
    /\ snapshot_callbacks = n_snapshot_cb
    /\ diag_enforcer = IF IsSome(level) THEN Some(DiagEnforcer_new(Unwrap(level), 0))
                       ELSE None
    /\ diag_reassert_needed = FALSE
    /\ now = 0
    /\ last = NoCall
    /\ sent = <<>>
    /\ calls = <<>>

\* connect(): oks[i] tells whether the i-th request of the handshake succeeds.
Connect(oks) ==
    LET r1 == <<Request("Connect", NoData, oks[1])>>
        r2 == Append(r1, Request("Subscribe", NoData, oks[2]))
        level == IF IsSome(diag_enforcer) THEN Unwrap(diag_enforcer).target_level ELSE 0
        r3 == Append(r2, Request("Publish", set_diag_level_data(level), oks[3]))
    IN
    /\ calls' = calls
    /\ UNCHANGED <<systems, previous_json, event_callbacks, snapshot_callbacks,
                   diag_reassert_needed, now>>
    /\ IF ~oks[1]
       THEN /\ sent' = sent \o r1
            /\ last' = [op |-> "connect", arg |-> NoArg, result |-> Http]
            /\ UNCHANGED <<connected, diag_enforcer>>
       ELSE IF ~oks[2]
       THEN /\ sent' = sent \o r2
            /\ last' = [op |-> "connect", arg |-> NoArg, result |-> Http]
            /\ UNCHANGED <<connected, diag_enforcer>>
       ELSE IF IsSome(diag_enforcer) /\ ~oks[3]
       THEN /\ sent' = sent \o r3
            /\ last' = [op |-> "connect", arg |-> NoArg, result |-> Http]
            /\ UNCHANGED <<connected, diag_enforcer>>
       ELSE /\ sent' = sent \o (IF IsSome(diag_enforcer) THEN r3 ELSE r2)
            /\ diag_enforcer' =
                 IF IsSome(diag_enforcer)
                 THEN Some(record_sent(reset(Unwrap(diag_enforcer), now), now))
                 ELSE None
            /\ connected' = TRUE
            /\ last' = [op |-> "connect", arg |-> NoArg, result |-> Ok]

Disconnect_clearing(ok) ==
    /\ sent' = Append(sent, Request("Disconnect", NoData, ok))
    /\ calls' = calls
    /\ connected' = FALSE
    /\ last' = [op |-> "disconnect", arg |-> NoArg, result |-> IF ok THEN Ok ELSE Http]
    /\ UNCHANGED <<systems, previous_json, event_callbacks, snapshot_callbacks,
                   diag_enforcer, diag_reassert_needed, now>>

\* disconnect()
Disconnect(ok) ==
    /\ sent' = Append(sent, Request("Disconnect", NoData, ok))
    /\ calls' = calls
    /\ connected' = IF ok THEN FALSE ELSE connected
    /\ last' = [op |-> "disconnect", arg |-> NoArg, result |-> IF ok THEN Ok ELSE Http]
    /\ UNCHANGED <<systems, previous_json, event_callbacks, snapshot_callbacks,
                   diag_enforcer, diag_reassert_needed, now>>

\* A poll response: status 0 stands for a request the transport could not
\* complete; the body only matters for the statuses that are read.
Response(status, body) == [status |-> status, body |-> body]
EmptyBody == [parses |-> TRUE, messages |-> <<>>]
Garbage == [parses |-> FALSE, messages |-> <<>>]
Message(sender, data) == [SenderID |-> sender, Data |-> Some(data)]
Body(msgs) == [parses |-> TRUE, messages |-> msgs]

\* The end of poll() with the body of an error answer read like any other.
PollDone_reads_errors(resp, pub_ok, payloads, st) ==
    LET arg == [status |-> resp.status, body |-> resp.body]
        retrieve == Request("Retrieve", NoData, resp.status # 0)
    IN
    /\ UNCHANGED <<connected, event_callbacks, snapshot_callbacks, now>>
    /\ IF resp.status = 0 \/ resp.status \in {204, 502}
               \/ payloads = <<>>
       THEN /\ last' = [op |-> "poll", arg |-> arg,
                        result |-> IF resp.status = 0
                                      \/ (resp.status \in 400..599
                                          /\ resp.status \notin {204, 502})
                                   THEN Http ELSE Ok]
            /\ sent' = Append(sent, retrieve)
            /\ calls' = calls
            /\ UNCHANGED <<systems, previous_json, diag_enforcer, diag_reassert_needed>>
       ELSE /\ systems' = st.systems
            /\ previous_json' = st.previous_json
            /\ calls' = calls \o st.calls
            /\ diag_reassert_needed' = FALSE
            /\ IF st.reassert /\ IsSome(st.enforcer)
               THEN /\ sent' = sent \o <<retrieve,
                                 Request("Publish",
                                         set_diag_level_data(Unwrap(st.enforcer).target_level),
                                         pub_ok)>>
                    /\ diag_enforcer' = IF pub_ok
                                        THEN Some(record_sent(Unwrap(st.enforcer), now))
                                        ELSE st.enforcer
                    /\ last' = [op |-> "poll", arg |-> arg,
                                result |-> IF pub_ok THEN Ok ELSE Http]
               ELSE /\ sent' = Append(sent, retrieve)
                    /\ diag_enforcer' = st.enforcer
                    /\ last' = [op |-> "poll", arg |-> arg, result |-> Ok]

\* The tail of poll() with the reassertion recorded before its publish is
\* awaited: a failed publish is counted like a successful one.
PollDone_counting_failures(resp, pub_ok, payloads, st) ==
    LET arg == [status |-> resp.status, body |-> resp.body]
        retrieve == Request("Retrieve", NoData, resp.status # 0)
    IN
    /\ UNCHANGED <<connected, event_callbacks, snapshot_callbacks, now>>
    /\ IF resp.status = 0 \/ resp.status \in {204, 502}
               \/ resp.status \in 400..599 \/ payloads = <<>>
       THEN /\ last' = [op |-> "poll", arg |-> arg,
                        result |-> IF resp.status = 0
                                      \/ (resp.status \in 400..599
                                          /\ resp.status \notin {204, 502})
                                   THEN Http ELSE Ok]
            /\ sent' = Append(sent, retrieve)
            /\ calls' = calls
            /\ UNCHANGED <<systems, previous_json, diag_enforcer, diag_reassert_needed>>
       ELSE /\ systems' = st.systems
            /\ previous_json' = st.previous_json
            /\ calls' = calls \o st.calls
            /\ diag_reassert_needed' = FALSE
            /\ IF st.reassert /\ IsSome(st.enforcer)
               THEN /\ sent' = sent \o <<retrieve,
                                 Request("Publish",
                                         set_diag_level_data(Unwrap(st.enforcer).target_level),
                                         pub_ok)>>
                    /\ diag_enforcer' = Some(record_sent(Unwrap(st.enforcer), now))
                    /\ last' = [op |-> "poll", arg |-> arg,
                                result |-> IF pub_ok THEN Ok ELSE Http]
               ELSE /\ sent' = Append(sent, retrieve)
                    /\ diag_enforcer' = st.enforcer
                    /\ last' = [op |-> "poll", arg |-> arg, result |-> Ok]

\* The end of poll() once the payloads are processed: st is the state after
\* them, payloads the list parse_retrieve_response gave.
PollDone(resp, pub_ok, payloads, st) ==
    LET arg == [status |-> resp.status, body |-> resp.body]
        retrieve == Request("Retrieve", NoData, resp.status # 0)
    IN
    /\ UNCHANGED <<connected, event_callbacks, snapshot_callbacks, now>>
    /\ IF resp.status = 0 \/ resp.status \in {204, 502}
               \/ resp.status \in 400..599 \/ payloads = <<>>
       THEN /\ last' = [op |-> "poll", arg |-> arg,
                        result |-> IF resp.status = 0
                                      \/ (resp.status \in 400..599
                                          /\ resp.status \notin {204, 502})
                                   THEN Http ELSE Ok]
            /\ sent' = Append(sent, retrieve)
            /\ calls' = calls
            /\ UNCHANGED <<systems, previous_json, diag_enforcer, diag_reassert_needed>>
       ELSE /\ systems' = st.systems
            /\ previous_json' = st.previous_json
            /\ calls' = calls \o st.calls
            /\ diag_reassert_needed' = FALSE
            /\ IF st.reassert /\ IsSome(st.enforcer)
               THEN /\ sent' = sent \o <<retrieve,
                                 Request("Publish",
                                         set_diag_level_data(Unwrap(st.enforcer).target_level),
                                         pub_ok)>>
                    /\ diag_enforcer' = IF pub_ok
                                        THEN Some(record_sent(Unwrap(st.enforcer), now))
                                        ELSE st.enforcer
                    /\ last' = [op |-> "poll", arg |-> arg,
                                result |-> IF pub_ok THEN Ok ELSE Http]
               ELSE /\ sent' = Append(sent, retrieve)
                    /\ diag_enforcer' = st.enforcer
                    /\ last' = [op |-> "poll", arg |-> arg, result |-> Ok]

\* if !self.connected { return Err(Error::NotConnected) }
PollRefused(resp) ==
    /\ last' = [op |-> "poll", arg |-> [status |-> resp.status, body |-> resp.body],
                result |-> NotConnected]
    /\ sent' = sent
    /\ calls' = calls
    /\ UNCHANGED <<connected, systems, previous_json, event_callbacks, snapshot_callbacks,
                   diag_enforcer, diag_reassert_needed, now>>

\* The guard of poll() left out: the request is made whatever the flag says.
Poll_unguarded(resp, pub_ok) ==
    PollDone(resp, pub_ok, parse_retrieve_response(resp.body),
             ProcessAll([systems |-> systems, previous_json |-> previous_json,
                         enforcer |-> diag_enforcer, reassert |-> diag_reassert_needed,
                         calls |-> <<>>],
                        parse_retrieve_response(resp.body), now,
                        event_callbacks, snapshot_callbacks))

\* poll(): resp is the transport's answer to the retrieve request, pub_ok the
\* answer to the reassertion publish if one is made.
Poll(resp, pub_ok) ==
    IF ~connected THEN PollRefused(resp)
    ELSE PollDone(resp, pub_ok, parse_retrieve_response(resp.body),
                  ProcessAll([systems |-> systems, previous_json |-> previous_json,
                              enforcer |-> diag_enforcer,
                              reassert |-> diag_reassert_needed, calls |-> <<>>],
                             parse_retrieve_response(resp.body), now,
                             event_callbacks, snapshot_callbacks))

\* A command method that notes a successful schedule switch in the model.
Command_switching(op, arg, r) ==
    LET switched == {r.sent[i].data.zone :
                        i \in {j \in 1..Len(r.sent) :
                                 r.sent[j].data.kind = "set_manual_schedule" /\ r.sent[j].ok}}
    IN
    /\ last' = [op |-> op, arg |-> arg, result |-> r.result]
    /\ sent' = sent \o r.sent
    /\ calls' = calls
    /\ systems' = [s \in DOMAIN systems |->
                     [systems[s] EXCEPT
                        !.zones = [z \in DOMAIN systems[s].zones |->
                                     IF systems[s].zones[z].id \in switched
                                     THEN [systems[s].zones[z] EXCEPT
                                             !.schedule_id =
                                                 Some(manual_schedule_id(
                                                          systems[s].zones[z].id))]
                                     ELSE systems[s].zones[z]]]]
    /\ UNCHANGED <<connected, previous_json, event_callbacks, snapshot_callbacks,
                   diag_enforcer, diag_reassert_needed, now>>

\* A command method: no field of the client changes.
Command(op, arg, r) ==
    /\ last' = [op |-> op, arg |-> arg, result |-> r.result]
    /\ sent' = sent \o r.sent
    /\ calls' = calls
    /\ UNCHANGED <<connected, systems, previous_json, event_callbacks, snapshot_callbacks,
                   diag_enforcer, diag_reassert_needed, now>>

SetHvacMode(zone_id, mode, oks) ==
    Command("set_hvac_mode", [zone |-> zone_id, mode |-> mode],
            set_hvac_mode(connected, systems, zone_id, mode, oks))

SetFanMode(zone_id, mode, oks) ==
    Command("set_fan_mode", [zone |-> zone_id, mode |-> mode],
            set_fan_mode(connected, systems, zone_id, mode, oks))

SetHeatSetpoint(zone_id, temp, oks) ==
    Command("set_heat_setpoint", [zone |-> zone_id, temp |-> temp],
            set_heat_setpoint(connected, systems, zone_id, temp, oks))

SetCoolSetpoint(zone_id, temp, oks) ==
    Command("set_cool_setpoint", [zone |-> zone_id, temp |-> temp],
            set_cool_setpoint(connected, systems, zone_id, temp, oks))

SetSetpoints(zone_id, heat, cool, oks) ==
    Command("set_setpoints", [zone |-> zone_id, heat |-> heat, cool |-> cool],
            set_setpoints(connected, systems, zone_id, heat, cool, oks))

SetAway(away, oks) ==
    Command("set_away", [away |-> away], set_away(connected, away, oks))

SetScheduleHold(zone_id, hold, oks) ==
    Command("set_schedule_hold", [zone |-> zone_id, hold |-> hold],
            set_schedule_hold(connected, systems, zone_id, hold, oks))

SetEquipmentParameter(equipment_id, pid, value, oks) ==
    Command("set_equipment_parameter",
            [equipment_id |-> equipment_id, pid |-> pid, value |-> value],
            set_equipment_parameter(connected, systems, equipment_id, pid, value, oks))

\* Time passes between two calls.
Tick(d) ==
    /\ now + d <= MaxTime
    /\ now' = now + d
    /\ UNCHANGED <<connected, systems, previous_json, event_callbacks, snapshot_callbacks,
                   diag_enforcer, diag_reassert_needed, last, sent, calls>>

\* The caller takes the result of the call; the record of the call is dropped
\* and the two logs are cleared.
Return ==
    /\ ~Quiet
    /\ last' = NoCall
    /\ sent' = <<>>
    /\ calls' = <<>>
    /\ UNCHANGED <<connected, systems, previous_json, event_callbacks, snapshot_callbacks,
                   diag_enforcer, diag_reassert_needed, now>>

----------------------------------------------------------------------------
(* Payloads the device delivers, after the fixtures of tests/client_tests.rs *)

C(tenths) == (tenths * TempScale) \div 10

Period(hsp, hspC, csp, cspC) ==
    JObj([hsp |-> JNum(hsp), hspC |-> JNum(hspC), csp |-> JNum(csp), cspC |-> JNum(cspC),
          systemMode |-> JStr("heat"), fanMode |-> JStr("auto")])

\* client_with_zone: zone 0 on its manual schedule, 21.0 / 24.5 degrees.
ZoneUpstairs ==
    JObj([id |-> JNum(0), name |-> JStr("Upstairs"),
          status |-> JObj([temperature |-> JNum(71), temperatureC |-> JNum(C(215)),
                           period |-> Period(70, C(210), 76, C(245))]),
          config |-> JObj([scheduleId |-> JNum(16)])])

\* Zone 0 moved to a programmed schedule.
ZoneScheduled == JObj([id |-> JNum(0), config |-> JObj([scheduleId |-> JNum(1)])])

\* Zone 0 mentioned with nothing but its id.
ZoneBare == JObj([id |-> JNum(0)])

\* Zone 1 on its manual schedule.
ZoneDownstairs ==
    JObj([id |-> JNum(1), name |-> JStr("Downstairs"),
          status |-> JObj([period |-> Period(68, C(200), 78, C(255))]),
          config |-> JObj([scheduleId |-> JNum(17)])])

ZonesPayload(zs) == JObj([zones |-> JArr(zs)])

\* parameter_change_fires_event: a writable range parameter, and a read-only one.
LockoutTime(value) ==
    JObj([id |-> JNum(0),
          parameter |-> JObj([pid |-> JNum(304), name |-> JStr("HP Lockout Time"),
                              value |-> JStr(value), enabled |-> JBool(TRUE),
                              descriptor |-> JStr("range"),
                              range |-> JObj([min |-> JStr("60"), max |-> JStr("240"),
                                              inc |-> JStr("30")]),
                              unit |-> JStr("min")])])

BalancePoint ==
    JObj([id |-> JNum(1),
          parameter |-> JObj([pid |-> JNum(128), name |-> JStr("High Balance Point"),
                              value |-> JStr("50"), enabled |-> JBool(FALSE),
                              descriptor |-> JStr("range"),
                              range |-> JObj([min |-> JStr("0"), max |-> JStr("240"),
                                              inc |-> JStr("1")]),
                              unit |-> JStr("F")])])

EquipmentPayload(value) ==
    JObj([equipments |->
            JArr(<<JObj([id |-> JNum(1),
                         equipment |-> JObj([equipType |-> JNum(19),
                                             parameters |-> JArr(<<LockoutTime(value),
                                                                   BalancePoint>>)])])>>)])

Delivery(payload) == Body(<<Message(TARGET_LCC, payload)>>)

----------------------------------------------------------------------------
(* Spec: the lifecycle and every command method, on a client built without  *)
(* a diagnostic level.  Each call is made from a quiet state and its record *)
(* is dropped before the next one.                                          *)

Oks2 == {<<TRUE, TRUE>>, <<FALSE, TRUE>>, <<TRUE, FALSE>>}
Oks3 == {<<TRUE, TRUE, TRUE>>, <<FALSE, TRUE, TRUE>>, <<TRUE, FALSE, TRUE>>,
         <<TRUE, TRUE, FALSE>>}

ZoneIds == {0, 1, 2}
GateTemps == {C(210), C(222)}
GateCools == {C(225), C(240)}
GateBodies ==
    {Delivery(ZonesPayload(<<ZoneUpstairs>>)), Delivery(ZonesPayload(<<ZoneScheduled>>)),
     Delivery(ZonesPayload(<<ZoneBare>>)), Delivery(ZonesPayload(<<ZoneDownstairs>>)),
     Delivery(EquipmentPayload("60")), Garbage}
PollStatuses == {0, 204, 404, 500, 502}
EquipmentIds == {1, 2}
ParameterIds == {128, 304, 305}
ParameterValues == {"90", "65", "300", "abc"}

Init == Build(None, MaxCallbacks, MaxCallbacks)

Next ==
    \/ \E oks \in Oks3 : Quiet /\ Connect(oks)
    \/ \E ok \in BOOLEAN : Quiet /\ Disconnect(ok)
    \/ \E body \in GateBodies : Quiet /\ Poll(Response(200, body), TRUE)
    \/ \E status \in PollStatuses : Quiet /\ Poll(Response(status, EmptyBody), TRUE)
    \/ \E z \in ZoneIds, m \in HvacMode, oks \in Oks2 : Quiet /\ SetHvacMode(z, m, oks)
    \/ \E z \in ZoneIds, m \in FanMode, oks \in Oks2 : Quiet /\ SetFanMode(z, m, oks)
    \/ \E z \in ZoneIds, t \in GateTemps, oks \in Oks2 :
          Quiet /\ SetHeatSetpoint(z, t, oks)
    \/ \E z \in ZoneIds, t \in GateTemps, oks \in Oks2 :
          Quiet /\ SetCoolSetpoint(z, t, oks)
    \/ \E z \in ZoneIds, h \in GateTemps, c \in GateCools, oks \in Oks2 :
          Quiet /\ SetSetpoints(z, h, c, oks)
    \/ \E away \in BOOLEAN, oks \in Oks2 : Quiet /\ SetAway(away, oks)
    \/ \E z \in ZoneIds, hold \in BOOLEAN, oks \in Oks2 :
          Quiet /\ SetScheduleHold(z, hold, oks)
    \/ \E e \in EquipmentIds, pid \in ParameterIds, v \in ParameterValues, oks \in Oks2 :
          Quiet /\ SetEquipmentParameter(e, pid, v, oks)
    \/ Return

Spec == Init /\ [][Next]_vars

----------------------------------------------------------------------------
(* Properties of the command methods and of the lifecycle, under Spec *)

CommandOps ==
    {"set_hvac_mode", "set_fan_mode", "set_heat_setpoint", "set_cool_setpoint",
     "set_setpoints", "set_away", "set_schedule_hold", "set_equipment_parameter"}

\* The commands that go through ensure_manual_schedule, with the kind of the
\* request body each one ends with.
GatedOps ==
    [set_hvac_mode |-> "set_hvac_mode", set_fan_mode |-> "set_fan_mode",
     set_heat_setpoint |-> "set_setpoint", set_cool_setpoint |-> "set_setpoint",
     set_setpoints |-> "set_setpoint"]

Rejections == {"InvalidZone", "InvalidSetpoints", "InvalidParameter", "NotConnected"}

\* C3 (reject-before-send): a command that returns InvalidZone,
\* InvalidSetpoints, InvalidParameter or NotConnected has handed no request
\* to the transport during the call, neither a schedule switch nor the
\* command itself.
C3_RejectBeforeSend ==
    (last.op \in CommandOps /\ last.result.tag \in Rejections) => sent = <<>>

\* A deadband violation rejected on a connected client for a known zone that
\* is not on its manual schedule: the call where a schedule switch could have
\* gone out before the rejection.
C3_Witness ==
    /\ last.op = "set_setpoints"
    /\ last.result.tag = "InvalidSetpoints"
    /\ connected
    /\ IsSome(find_zone(systems, last.arg.zone))
    /\ Unwrap(find_zone(systems, last.arg.zone)).schedule_id
         # Some(manual_schedule_id(last.arg.zone))
    /\ sent = <<>>

\* The requests of a gated command on zone z that got past validation.
SwitchFirst(z, kind) ==
    /\ Len(sent) >= 1
    /\ sent[1].req = "Publish"
    /\ sent[1].data = set_manual_mode_data(z)
    /\ sent[1].data.scheduleId = 16 + z
    /\ IF sent[1].ok
       THEN /\ Len(sent) = 2
            /\ sent[2].req = "Publish"
            /\ sent[2].data.kind = kind
            /\ sent[2].data.schedule = 16 + z
       ELSE /\ Len(sent) = 1
            /\ last.result.tag = "Http"

CommandOnly(z, kind) ==
    /\ Len(sent) = 1
    /\ sent[1].req = "Publish"
    /\ sent[1].data.kind = kind
    /\ sent[1].data.schedule = 16 + z

\* C4 (manual-schedule gating): for set_hvac_mode, set_fan_mode,
\* set_heat_setpoint, set_cool_setpoint and set_setpoints on a known zone z of
\* a connected client (the pair of set_setpoints respecting the deadband, so
\* that there is a command to send): when the model's schedule id of z is not
\* 16+z, or is unknown, the first request is the schedule switch of z to 16+z
\* and, if it succeeds, the second and last one is the command; if the switch
\* fails nothing follows it; when the schedule id is 16+z the command is the
\* only request.
C4_ManualScheduleGating ==
    (/\ last.op \in DOMAIN GatedOps
     /\ connected
     /\ IsSome(find_zone(systems, last.arg.zone))
     /\ last.result.tag # "InvalidSetpoints")
    => IF Unwrap(find_zone(systems, last.arg.zone)).schedule_id
            # Some(manual_schedule_id(last.arg.zone))
       THEN SwitchFirst(last.arg.zone, GatedOps[last.op])
       ELSE CommandOnly(last.arg.zone, GatedOps[last.op])

\* A zone on a programmed schedule whose command went out behind the switch.
C4_Witness ==
    /\ last.op = "set_heat_setpoint"
    /\ connected
    /\ IsSome(find_zone(systems, last.arg.zone))
    /\ Unwrap(find_zone(systems, last.arg.zone)).schedule_id = Some(1)
    /\ Len(sent) = 2
    /\ sent[1].data.kind = "set_manual_schedule"
    /\ sent[2].data.kind = "set_setpoint"

\* C10 (not-connected guard of poll): the connected flag is raised only by a
\* successful connect() and lowered only by a successful disconnect(), so it
\* is down exactly on a client that never connected or whose last successful
\* lifecycle call was disconnect(); on such a client poll() returns
\* NotConnected, makes no request, calls no observer and leaves the domain
\* model and the mirror as they were.
C10_PollNotConnected ==
    [][/\ (connected' # connected) =>
            /\ last'.result.tag = "Ok"
            /\ last'.op = (IF connected' THEN "connect" ELSE "disconnect")
       /\ (last'.op = "connect" /\ last'.result.tag = "Ok") => connected'
       /\ (last'.op = "disconnect" /\ last'.result.tag = "Ok") => ~connected'
       /\ (last'.op = "poll" /\ ~connected) =>
            /\ last'.result = NotConnected
            /\ sent' = sent
            /\ calls' = calls
            /\ systems' = systems
            /\ previous_json' = previous_json
            /\ ~connected']_vars

\* A poll refused after a disconnect, on a client whose model holds a zone,
\* with a response waiting that carries data.
C10_Witness ==
    /\ last.op = "poll"
    /\ last.result.tag = "NotConnected"
    /\ systems # <<>>
    /\ last.arg.status = 200
    /\ parse_retrieve_response(last.arg.body) # <<>>
    /\ sent = <<>>
    /\ calls = <<>>

----------------------------------------------------------------------------
(* SpecSetpoints: the three setpoint commands on a zone whose recorded      *)
(* setpoints come from the device, with requested temperatures on and off   *)
(* the device's half-degree grid.                                           *)

TempCount == 10
TempLo == C(200)
TempStep == (7 * TempScale) \div 20
Temps == {TempLo + i * TempStep : i \in 0..(TempCount - 1)}

DeviceHeats == {C(210), C(220), C(223)}
DeviceCools == {C(235), C(237), C(245)}
SetpointZoneIds == {0, 1}

\* Zone 0 on its manual schedule reporting the pair (h, c).
SetpointZone(h, c) ==
    JObj([id |-> JNum(0),
          status |-> JObj([period |-> Period(to_lennox_fahrenheit(from_celsius(h)), h,
                                             to_lennox_fahrenheit(from_celsius(c)), c)]),
          config |-> JObj([scheduleId |-> JNum(16)])])

InitSetpoints == Build(None, MaxCallbacks, MaxCallbacks)

NextSetpoints ==
    \/ Quiet /\ Connect(<<TRUE, TRUE, TRUE>>)
    \/ \E h \in DeviceHeats, c \in DeviceCools :
          Quiet /\ Poll(Response(200, Delivery(ZonesPayload(<<SetpointZone(h, c)>>))), TRUE)
    \/ \E zone \in {ZoneBare, ZoneScheduled} :
          Quiet /\ Poll(Response(200, Delivery(ZonesPayload(<<zone>>))), TRUE)
    \/ \E z \in SetpointZoneIds, t \in Temps, oks \in Oks2 :
          Quiet /\ SetHeatSetpoint(z, t, oks)
    \/ \E z \in SetpointZoneIds, t \in Temps, oks \in Oks2 :
          Quiet /\ SetCoolSetpoint(z, t, oks)
    \/ \E z \in SetpointZoneIds, h \in Temps, c \in Temps, oks \in Oks2 :
          Quiet /\ SetSetpoints(z, h, c, oks)
    \/ Return

SpecSetpoints == InitSetpoints /\ [][NextSetpoints]_vars

\* The call in the record: its zone as the model has it, and the setpoint
\* command it sent, if it sent one (a call sends at most one, as its last
\* request).
CalledZone == find_zone(systems, last.arg.zone)
SentSetpoint ==
    IF sent # <<>> /\ sent[Len(sent)].data.kind = "set_setpoint"
    THEN Some(sent[Len(sent)].data) ELSE None

\* A call that reached its command: known zone, connected client, and the
\* schedule switch, if there was one, delivered.
ReachedCommand ==
    /\ connected
    /\ IsSome(CalledZone)
    /\ ~(Len(sent) = 1 /\ sent[1].data.kind = "set_manual_schedule")

\* C5 as the specification states it, with H the requested temperature
\* itself: the command of set_heat_setpoint(z, H) on a zone with cool
\* setpoint C carries a cool value of at least H+1.5 when C < H+1.5 and the
\* prior cool, at device precision, when C >= H+1.5, and the call never
\* fails because of the deadband.
C5_AsStated ==
    last.op = "set_heat_setpoint" =>
      /\ last.result.tag # "InvalidSetpoints"
      /\ (IsSome(SentSetpoint) /\ IsSome(Unwrap(CalledZone).cool_setpoint)) =>
           LET H == last.arg.temp
               cool == Unwrap(Unwrap(CalledZone).cool_setpoint)
               cmd == Unwrap(SentSetpoint)
           IN IF celsius(cool) < celsius(H) + DEADBAND_C
              THEN cmd.cspC >= celsius(H) + DEADBAND_C
              ELSE cmd.cspC = to_lennox_celsius(cool)

\* C5 (deadband auto-correction), amended: with H' the requested heat rounded
\* to the device's half degree, set_heat_setpoint(z, H) on a zone with cool
\* setpoint C sends a setpoint command whose heat value is H' and whose cool
\* value is at least H'+1.5 when C < H'+1.5 and is the prior cool at device
\* precision when C >= H'+1.5; the command is sent whenever the call reaches
\* it, and the call never fails with InvalidSetpoints.
C5_DeadbandAutoCorrection ==
    last.op = "set_heat_setpoint" =>
      /\ last.result.tag # "InvalidSetpoints"
      /\ ReachedCommand => IsSome(SentSetpoint)
      /\ (IsSome(SentSetpoint) /\ IsSome(Unwrap(CalledZone).cool_setpoint)) =>
           LET hsp_c == to_lennox_celsius(last.arg.temp)
               cool == Unwrap(Unwrap(CalledZone).cool_setpoint)
               cmd == Unwrap(SentSetpoint)
           IN /\ cmd.hspC = hsp_c
              /\ IF celsius(cool) < hsp_c + DEADBAND_C
                 THEN cmd.cspC >= hsp_c + DEADBAND_C
                 ELSE cmd.cspC = to_lennox_celsius(cool)

\* A heat setpoint off the grid that pushed the cool setpoint up.
C5_Witness ==
    /\ last.op = "set_heat_setpoint"
    /\ IsSome(SentSetpoint)
    /\ IsSome(Unwrap(CalledZone).cool_setpoint)
    /\ to_lennox_celsius(last.arg.temp) # celsius(last.arg.temp)
    /\ celsius(Unwrap(Unwrap(CalledZone).cool_setpoint))
         < to_lennox_celsius(last.arg.temp) + DEADBAND_C
    /\ Unwrap(SentSetpoint).cspC
         > to_lennox_celsius(Unwrap(Unwrap(CalledZone).cool_setpoint))

\* C6 (atomic setpoint rejection): set_setpoints(z, heat, cool) returns
\* InvalidSetpoints, carrying both rounded Celsius values and the threshold,
\* exactly when the rounded cool is below the rounded heat plus 1.5; a call
\* with a valid pair that reaches its command sends one setpoint command,
\* no call sends more than one, and the command carries the rounded heat and
\* cool as requested, neither of them adjusted.
C6_AtomicRejection ==
    last.op = "set_setpoints" =>
      LET hsp_c == to_lennox_celsius(last.arg.heat)
          csp_c == to_lennox_celsius(last.arg.cool)
      IN /\ (last.result.tag = "InvalidSetpoints") <=> (csp_c < hsp_c + DEADBAND_C)
         /\ last.result.tag = "InvalidSetpoints" =>
              /\ last.result = InvalidSetpoints(hsp_c, csp_c, DEADBAND_C)
              /\ sent = <<>>
         /\ (csp_c >= hsp_c + DEADBAND_C /\ ReachedCommand) => IsSome(SentSetpoint)
         /\ \A i \in 1..Len(sent) :
              sent[i].data.kind = "set_setpoint" =>
                /\ i = Len(sent)
                /\ sent[i].data =
                     set_setpoint_data(manual_schedule_id(last.arg.zone),
                                       to_lennox_fahrenheit(last.arg.heat), hsp_c,
                                       to_lennox_fahrenheit(last.arg.cool), csp_c)

\* A pair exactly 1.5 degrees apart after rounding, with both temperatures
\* off the grid, accepted and sent for a known zone of a connected client.
C6_Witness ==
    /\ last.op = "set_setpoints"
    /\ ReachedCommand
    /\ IsSome(SentSetpoint)
    /\ to_lennox_celsius(last.arg.heat) # celsius(last.arg.heat)
    /\ to_lennox_celsius(last.arg.cool) # celsius(last.arg.cool)
    /\ Unwrap(SentSetpoint).cspC - Unwrap(SentSetpoint).hspC = DEADBAND_C

----------------------------------------------------------------------------
(* SpecDiag: the diagnostic-level enforcer.  The client is built with or    *)
(* without a target level; the device reports a level at or below the       *)
(* target; time passes between the calls.                                   *)

TargetLevel == 2
BuilderLevels == {None, Some(TargetLevel)}
ReportedLevels == {0, TargetLevel}
TickSteps == {150, 300, 3150}

\* A payload whose system section reports the diagnostic level.
DiagPayload(level) ==
    JObj([system |-> JObj([status |-> JObj([diagLevel |-> JNum(level)])])])

InitDiag == \E level \in BuilderLevels : Build(level, MaxCallbacks, MaxCallbacks)

\* One connection per client, and the clock followed from the connection on:
\* nothing an unconnected client does depends on the time.
NextDiag ==
    \/ \E oks \in Oks3 : Quiet /\ ~connected /\ Connect(oks)
    \/ \E level \in ReportedLevels, pub_ok \in BOOLEAN :
          Quiet /\ Poll(Response(200, Delivery(DiagPayload(level))), pub_ok)
    \/ \E d \in TickSteps : Quiet /\ connected /\ Tick(d)
    \/ Return

SpecDiag == InitDiag /\ [][NextDiag]_vars

\* The step is a poll that went through its payload, on a client with an
\* enforcer, and the first system's level after it is below the target.
LowLevelPoll ==
    /\ last.op = "none"
    /\ last'.op = "poll"
    /\ last'.result.tag # "NotConnected"
    /\ IsSome(diag_enforcer)
    /\ IsSome(current_level(systems'))
    /\ Unwrap(current_level(systems')) < Unwrap(diag_enforcer).target_level

\* The request, among reqs, that sets the diagnostic level to the target.
DiagCommands(reqs) == {i \in 1..Len(reqs) : reqs[i].data.kind = "set_diag_level"}

\* C8 as the specification states it: on a poll that finds the level below
\* the target, no command goes out when 3 sends are counted in a window that
\* is less than 3600 seconds old, and one goes out when the window that
\* counted 3 sends began 3600 seconds ago or more.
C8_AsStated ==
    [][LowLevelPoll =>
         LET e == Unwrap(diag_enforcer) IN
         /\ (e.attempts_this_hour >= 3 /\ now - e.hour_start < 3600) =>
              DiagCommands(sent') = {}
         /\ (e.attempts_this_hour >= 3 /\ now - e.hour_start >= 3600) =>
              DiagCommands(sent') # {}]_vars

\* C8 (circuit breaker), amended: while the device reports a level below the
\* target, a reassertion required when 3 sends are counted in a window less
\* than 3600 seconds old is suppressed (no command is sent); once 3600
\* seconds have passed since the window began, a required reassertion is
\* sent again provided 300 seconds have also passed since the last send,
\* and is suppressed until then.
C8_CircuitBreaker ==
    [][LowLevelPoll =>
         LET e == Unwrap(diag_enforcer)
             cooling == IsSome(e.last_sent) /\ now - Unwrap(e.last_sent) < 300
         IN
         /\ (e.attempts_this_hour >= 3 /\ now - e.hour_start < 3600) =>
              DiagCommands(sent') = {}
         /\ (now - e.hour_start >= 3600 /\ ~cooling) =>
              /\ DiagCommands(sent') = {Len(sent')}
              /\ sent'[Len(sent')].data = set_diag_level_data(e.target_level)
         /\ (now - e.hour_start >= 3600 /\ cooling) => DiagCommands(sent') = {}]_vars

\* A reassertion held back by the cap alone: the level is below the target,
\* the last send is 300 seconds old or more, three sends are counted in a
\* window that has not run out, and the poll sent nothing but its retrieve.
C8_Witness ==
    /\ last.op = "poll"
    /\ last.result.tag = "Ok"
    /\ IsSome(diag_enforcer)
    /\ IsSome(current_level(systems))
    /\ Unwrap(current_level(systems)) < Unwrap(diag_enforcer).target_level
    /\ Unwrap(diag_enforcer).attempts_this_hour = 3
    /\ now - Unwrap(diag_enforcer).hour_start < 3600
    /\ now - Unwrap(Unwrap(diag_enforcer).last_sent) >= 300
    /\ DiagCommands(sent) = {}

----------------------------------------------------------------------------
(* SpecConnect: connections and reconnections at any time within a short    *)
(* horizon, with polls and disconnections between them.                     *)

ConnectHorizon == 900
ConnectTicks == {150, 300}

NextConnect ==
    \/ \E oks \in Oks3 : Quiet /\ Connect(oks)
    \/ \E ok \in BOOLEAN : Quiet /\ Disconnect(ok)
    \/ \E level \in ReportedLevels, pub_ok \in BOOLEAN :
          Quiet /\ Poll(Response(200, Delivery(DiagPayload(level))), pub_ok)
    \/ \E d \in ConnectTicks : Quiet /\ now + d <= ConnectHorizon /\ Tick(d)
    \/ Return

SpecConnect == InitDiag /\ [][NextConnect]_vars

\* The three requests of a successful handshake with a diagnostic level.
Handshake(level) ==
    <<Request("Connect", NoData, TRUE), Request("Subscribe", NoData, TRUE),
      Request("Publish", set_diag_level_data(level), TRUE)>>

\* C9 (diagnostic level at connect): a successful connect() of a client with
\* a diagnostic level sends exactly one set-diagnostic-level command, with
\* the target level, right after the subscribe request; the client is marked
\* connected only by a connect() whose every request, that command included,
\* succeeded; the enforcer's window then starts at the time of the connect,
\* counting that one send; and a client built without a level sends no
\* diagnostic-level command in connect() or poll().
C9_DiagLevelAtConnect ==
    [][/\ (last.op = "none" /\ last'.op = "connect") =>
            /\ (last'.result.tag = "Ok" /\ IsSome(diag_enforcer)) =>
                 /\ sent' = sent \o Handshake(Unwrap(diag_enforcer).target_level)
                 /\ connected'
                 /\ diag_enforcer' =
                      Some([target_level |-> Unwrap(diag_enforcer).target_level,
                            last_sent |-> Some(now), attempts_this_hour |-> 1,
                            hour_start |-> now])
            /\ last'.result.tag # "Ok" =>
                 /\ connected' = connected
                 /\ diag_enforcer' = diag_enforcer
            /\ \A i \in DiagCommands(sent') : i = 3 /\ sent'[2].ok
       /\ diag_enforcer = None => DiagCommands(sent') = {}]_vars

\* A reconnection: the client had polled before, time has passed since it was
\* built, and the handshake with the level command has just succeeded.
C9_Witness ==
    /\ last.op = "connect"
    /\ last.result.tag = "Ok"
    /\ sent = Handshake(TargetLevel)
    /\ systems # <<>>
    /\ now > 0
    /\ Unwrap(diag_enforcer).hour_start = now

----------------------------------------------------------------------------
(* SpecRecon: the reconciliation loop under consecutive polls.  The polls   *)
(* of a run of at most MaxPolls append to the two logs; the caller clears   *)
(* the logs between two runs.                                               *)

MaxPolls == 2

\* second_poll_only_fires_events_for_changes: the outdoor temperature.
SystemPayload(f, c) ==
    JObj([system |-> JObj([status |-> JObj([outdoorTemperature |-> JNum(f),
                                             outdoorTemperatureC |-> JNum(c)])])])

OccupancyPayload(away) == JObj([occupancy |-> JObj([manualAway |-> JBool(away)])])

\* Zone 0 with a schedule hold on its override schedule.
ZoneHeld ==
    JObj([id |-> JNum(0), name |-> JStr("Upstairs"),
          status |-> JObj([temperature |-> JNum(72), temperatureC |-> JNum(C(220)),
                           period |-> Period(70, C(210), 76, C(245))]),
          config |-> JObj([scheduleId |-> JNum(16),
                           scheduleHold |-> JObj([scheduleId |-> JNum(32),
                                                  enabled |-> JBool(TRUE)])])])

Alert(code, active) ==
    JObj([alert |-> JObj([code |-> JNum(code), isStillActive |-> JBool(active)])])

AlertsPayload(entries) == JObj([alerts |-> JObj([active |-> JArr(entries)])])

ReconPayloads ==
    {SystemPayload(72, C(220)), SystemPayload(75, C(240)),
     OccupancyPayload(TRUE), OccupancyPayload(FALSE),
     ZonesPayload(<<ZoneUpstairs>>), ZonesPayload(<<ZoneHeld>>),
     ZonesPayload(<<ZoneUpstairs, ZoneDownstairs>>),
     EquipmentPayload("60"), EquipmentPayload("90"),
     AlertsPayload(<<Alert(18, TRUE)>>), AlertsPayload(<<>>)}

InitRecon == Build(None, MaxCallbacks, MaxCallbacks)

NextRecon ==
    \/ Quiet /\ Connect(<<TRUE, TRUE, TRUE>>)
    \/ \E payload \in ReconPayloads :
          /\ Quiet \/ (last.op = "poll" /\ Len(sent) < MaxPolls)
          /\ Poll(Response(200, Delivery(payload)), TRUE)
    \/ Return

SpecRecon == InitRecon /\ [][NextRecon]_vars

\* The step is a poll that delivers, right after a poll that went through it,
\* the body that poll delivered.
Redelivery ==
    /\ last.op = "poll"
    /\ last.result.tag = "Ok"
    /\ last'.op = "poll"
    /\ last'.arg = last.arg
    /\ Len(sent') = Len(sent) + 1

\* The observer invocations the step adds to the log.
NewCalls == {calls'[i] : i \in (Len(calls) + 1)..Len(calls')}

\* C1 (idempotent reconciliation, events): when two consecutive polls each
\* deliver the payload P, whatever the client's state before the first, no
\* event observer is invoked while the second delivery is processed.
C1_NoEventsOnRedelivery ==
    [][Redelivery => \A call \in NewCalls : call.kind # "event"]_vars

\* C2 (idempotent reconciliation, snapshots): when a payload identical to the
\* one just processed is delivered again, no snapshot observer is invoked
\* for it.
C2_NoSnapshotOnRedelivery ==
    [][Redelivery => \A call \in NewCalls : call.kind # "snapshot"]_vars

----------------------------------------------------------------------------
(* SpecFresh: a client on which no connect() has succeeded yet.  Every      *)
(* handshake fails at one of its requests; the caller tries everything.     *)

\* The handshake with these answers fails: the connect or the subscribe
\* request is refused, or the level command of a client that has one.
ConnectFails(oks) == ~oks[1] \/ ~oks[2] \/ (IsSome(diag_enforcer) /\ ~oks[3])

NextFresh ==
    \/ \E oks \in Oks3 : Quiet /\ ConnectFails(oks) /\ Connect(oks)
    \/ \E ok \in BOOLEAN : Quiet /\ Disconnect(ok)
    \/ \E status \in PollStatuses : Quiet /\ Poll(Response(status, EmptyBody), TRUE)
    \/ \E z \in ZoneIds, m \in HvacMode, oks \in Oks2 : Quiet /\ SetHvacMode(z, m, oks)
    \/ \E z \in ZoneIds, m \in FanMode, oks \in Oks2 : Quiet /\ SetFanMode(z, m, oks)
    \/ \E z \in ZoneIds, t \in GateTemps, oks \in Oks2 :
          Quiet /\ SetHeatSetpoint(z, t, oks)
    \/ \E z \in ZoneIds, t \in GateTemps, oks \in Oks2 :
          Quiet /\ SetCoolSetpoint(z, t, oks)
    \/ \E z \in ZoneIds, h \in GateTemps, c \in GateCools, oks \in Oks2 :
          Quiet /\ SetSetpoints(z, h, c, oks)
    \/ \E away \in BOOLEAN, oks \in Oks2 : Quiet /\ SetAway(away, oks)
    \/ \E z \in ZoneIds, hold \in BOOLEAN, oks \in Oks2 :
          Quiet /\ SetScheduleHold(z, hold, oks)
    \/ \E e \in EquipmentIds, pid \in ParameterIds, v \in ParameterValues, oks \in Oks2 :
          Quiet /\ SetEquipmentParameter(e, pid, v, oks)
    \/ Return

SpecFresh == InitDiag /\ [][NextFresh]_vars

\* C11 (not-connected guard of the commands): every command issued on a
\* client before any successful connect() fails with the NotConnected error,
\* whatever its arguments.
C11_CommandsNotConnected ==
    last.op \in CommandOps => last.result.tag = "NotConnected"

----------------------------------------------------------------------------
(* SpecGuard: the lifecycle, the polls and every command method on a client *)
(* built with or without a diagnostic level, over a short horizon.          *)

GuardZoneIds == {0, 2}
GuardBodies == {Delivery(ZonesPayload(<<ZoneScheduled>>)), Delivery(EquipmentPayload("60")),
                Delivery(DiagPayload(0))}
AllOk == <<TRUE, TRUE>>

NextGuard ==
    \/ \E oks \in Oks3 : Quiet /\ Connect(oks)
    \/ \E ok \in BOOLEAN : Quiet /\ Disconnect(ok)
    \/ \E body \in GuardBodies, pub_ok \in BOOLEAN :
          Quiet /\ Poll(Response(200, body), pub_ok)
    \/ \E z \in GuardZoneIds : Quiet /\ SetHvacMode(z, "Heat", AllOk)
    \/ \E z \in GuardZoneIds : Quiet /\ SetFanMode(z, "On", AllOk)
    \/ \E z \in GuardZoneIds, t \in GateTemps : Quiet /\ SetHeatSetpoint(z, t, AllOk)
    \/ \E z \in GuardZoneIds, t \in GateTemps : Quiet /\ SetCoolSetpoint(z, t, AllOk)
    \/ \E z \in GuardZoneIds, h \in GateTemps, c \in GateCools :
          Quiet /\ SetSetpoints(z, h, c, AllOk)
    \/ \E away \in BOOLEAN : Quiet /\ SetAway(away, AllOk)
    \/ \E z \in GuardZoneIds, hold \in BOOLEAN : Quiet /\ SetScheduleHold(z, hold, AllOk)
    \/ \E e \in EquipmentIds, v \in ParameterValues :
          Quiet /\ SetEquipmentParameter(e, 304, v, AllOk)
    \/ \E d \in ConnectTicks : Quiet /\ now + d <= ConnectHorizon /\ Tick(d)
    \/ Return

SpecGuard == InitDiag /\ [][NextGuard]_vars

\* The step is a call of an operation other than connect() and disconnect().
GuardedCall == last.op = "none" /\ last'.op \notin {"none", "connect", "disconnect"}

\* C12 (not-connected guard, requests): in every reachable state where the
\* connected flag is false, an operation other than connect() and
\* disconnect() hands no request to the transport: no retrieve, no schedule
\* switch, no command, no diagnostic reassertion.
C12_NoRequestWhenNotConnected ==
    [][(GuardedCall /\ ~connected) => sent' = sent]_vars

\* A client with a diagnostic level that was connected, learned of a zone and
\* of a level below its target, and was disconnected: the poll or the zone
\* command made then has sent nothing.
C12_Witness ==
    /\ ~connected
    /\ last.op \in {"poll", "set_hvac_mode"}
    /\ sent = <<>>
    /\ IsSome(diag_enforcer)
    /\ systems # <<>>
    /\ systems[1].zones # <<>>
    /\ IsSome(systems[1].diag_level)
    /\ Unwrap(systems[1].diag_level) < Unwrap(diag_enforcer).target_level

----------------------------------------------------------------------------
(* SpecObservers: polls of one or two payloads on a client with several     *)
(* observers of each kind.                                                  *)

ObserverCount == 2

ObserverPayloads ==
    {SystemPayload(72, C(220)), SystemPayload(75, C(240)), OccupancyPayload(TRUE),
     ZonesPayload(<<ZoneUpstairs>>), ZonesPayload(<<ZoneHeld>>),
     AlertsPayload(<<Alert(18, TRUE)>>)}

\* A body of two messages of the device.
Delivery2(p, q) == Body(<<Message(TARGET_LCC, p), Message(TARGET_LCC, q)>>)

ObserverBodies ==
    {Delivery(p) : p \in ObserverPayloads}
    \cup {Delivery2(p, q) : p \in ObserverPayloads, q \in ObserverPayloads}

InitObservers == Build(None, ObserverCount, ObserverCount)

NextObservers ==
    \/ Quiet /\ Connect(<<TRUE, TRUE, TRUE>>)
    \/ \E body \in ObserverBodies : Quiet /\ Poll(Response(200, body), TRUE)
    \/ Return

SpecObservers == InitObservers /\ [][NextObservers]_vars

\* The calls i..j of the log are those of one payload in the right order:
\* no event call after a snapshot call, no snapshot observer called twice,
\* and every snapshot call handed the same system.
OnePayload(i, j) ==
    /\ \A a, b \in i..j :
         (a < b /\ calls[a].kind = "snapshot") =>
           /\ calls[b].kind = "snapshot"
           /\ calls[b].cb # calls[a].cb
           /\ calls[b].system = calls[a].system

\* The snapshot calls i..j were handed the first system as it is now.
SeesModel(i, j) ==
    \A a \in i..j : calls[a].kind = "snapshot" => calls[a].system = systems[1]

\* C13 (events before snapshots): while one payload is processed, every
\* event observer is invoked before any snapshot observer, each snapshot
\* observer is invoked at most once, and the snapshot observers are handed
\* the domain model with the whole payload applied.  A poll of two payloads
\* makes the calls of the first, then the calls of the second.
C13_EventsBeforeSnapshots ==
    (last.op = "poll" /\ last.result.tag = "Ok") =>
      LET n == Len(last.arg.body.messages) IN
      \E k \in 0..Len(calls) :
         /\ n = 1 => k = 0
         /\ OnePayload(1, k)
         /\ OnePayload(k + 1, Len(calls))
         /\ SeesModel(k + 1, Len(calls))

\* One payload that made both kinds of calls: an event for every event
\* observer, then the snapshot for every snapshot observer.
C13_Witness ==
    /\ last.op = "poll"
    /\ Len(last.arg.body.messages) = 1
    /\ Len(calls) >= 2 * ObserverCount
    /\ calls[1].kind = "event"
    /\ calls[Len(calls)].kind = "snapshot"
    /\ calls[Len(calls)].cb = ObserverCount

----------------------------------------------------------------------------
(* SpecMirror: three payloads in a row, the first in a poll of its own and  *)
(* the next two in the body of the poll that follows it.                    *)

\* Zone 0 reporting another temperature.
ZoneWarm ==
    JObj([id |-> JNum(0),
          status |-> JObj([temperature |-> JNum(75), temperatureC |-> JNum(C(240))])])

MirrorPayloads ==
    {ZonesPayload(<<ZoneUpstairs>>), ZonesPayload(<<ZoneWarm>>), ZonesPayload(<<ZoneBare>>),
     ZonesPayload(<<ZoneScheduled>>), SystemPayload(72, C(220))}

InitMirror == Build(None, MaxCallbacks, MaxCallbacks)

NextMirror ==
    \/ Quiet /\ Connect(<<TRUE, TRUE, TRUE>>)
    \/ \E p \in MirrorPayloads : Quiet /\ Poll(Response(200, Delivery(p)), TRUE)
    \/ \E q \in MirrorPayloads, r \in MirrorPayloads :
          /\ last.op = "poll"
          /\ Len(last.arg.body.messages) = 1
          /\ Poll(Response(200, Delivery2(q, r)), TRUE)
    \/ Return

SpecMirror == InitMirror /\ [][NextMirror]_vars

\* The payload has a zones section whose first entry is zone 0.
AboutZone0(p) ==
    /\ IsSome(Get(p, "zones"))
    /\ GetU64(Unwrap(Get(p, "zones")).a[1], "id") = Some(0)

\* The payload reports the temperature of zone 0.
ReportsTemperature(p) ==
    /\ AboutZone0(p)
    /\ IsSome(Pointer(Unwrap(Get(p, "zones")).a[1], <<"status", "temperature">>))

\* The step is a poll that went through one payload, followed by a poll of
\* two payloads: zone 0's temperature reported, then left out, then reported
\* again with the same value.
ReportedOmittedReported ==
    /\ last.op = "poll"
    /\ last.result.tag = "Ok"
    /\ Len(last.arg.body.messages) = 1
    /\ last'.op = "poll"
    /\ Len(last'.arg.body.messages) = 2
    /\ LET p == Unwrap(last.arg.body.messages[1].Data)
           q == Unwrap(last'.arg.body.messages[1].Data)
           r == Unwrap(last'.arg.body.messages[2].Data)
       IN ReportsTemperature(p) /\ AboutZone0(q) /\ ~ReportsTemperature(q) /\ r = p

\* The observer calls the step makes for the last payload of its body: the
\* payload before it has one section, so its calls end with one call of
\* every snapshot observer.
LastPayloadCalls ==
    {i \in (Len(calls) + 1)..Len(calls') :
       Cardinality({j \in (Len(calls) + 1)..(i - 1) : calls'[j].kind = "snapshot"})
         >= snapshot_callbacks}

\* C14 (deep-merged mirror): when a payload reports the temperature of zone
\* 0, a later payload for zone 0 omits it and a third payload reports the
\* same value again, the third payload fires no event for the temperature.
C14_MirrorKeepsOmittedLeaf ==
    [][ReportedOmittedReported =>
         \A i \in LastPayloadCalls :
            calls'[i].kind = "event" =>
              calls'[i].event.type # "ZoneTemperatureChanged"]_vars

----------------------------------------------------------------------------
(* SpecAway: occupancy sections, with and without the manual flag and the   *)
(* smart-away object, in runs of consecutive polls.                         *)

AwayPolls == 3

SmartAwayStates == {"home", "transition", "away"}
ManualAways == {None, Some(TRUE), Some(FALSE)}
SmartAways ==
    {None} \cup {Some([enabled |-> e, state |-> s]) : e \in BOOLEAN, s \in SmartAwayStates}

\* poll_occupancy_fires_away_event: an occupancy section with the keys given.
AwayPayload(manual, smart) ==
    JObj([occupancy |->
            JObj([k \in (IF IsSome(manual) THEN {"manualAway"} ELSE {})
                        \cup (IF IsSome(smart) THEN {"smartAway"} ELSE {}) |->
                    IF k = "manualAway" THEN JBool(Unwrap(manual))
                    ELSE JObj([enabled |-> JBool(Unwrap(smart).enabled),
                               setpointState |-> JStr(Unwrap(smart).state)])])])

InitAway == Build(None, MaxCallbacks, MaxCallbacks)

NextAway ==
    \/ Quiet /\ Connect(<<TRUE, TRUE, TRUE>>)
    \/ \E manual \in ManualAways, smart \in SmartAways :
          /\ Quiet \/ (last.op = "poll" /\ Len(sent) < AwayPolls)
          /\ Poll(Response(200, Delivery(AwayPayload(manual, smart))), TRUE)
    \/ Return

SpecAway == InitAway /\ [][NextAway]_vars

\* The step is a poll that went through a payload with an occupancy section.
OccupancyPoll ==
    /\ last'.op = "poll"
    /\ last'.result.tag = "Ok"
    /\ Len(sent') = Len(sent) + 1

\* The occupancy section the step delivers.
DeliveredOccupancy == Unwrap(Get(Unwrap(last'.arg.body.messages[1].Data), "occupancy"))

\* Away, as the specification defines it, before and after the step; a
\* client that has no system yet counts as not away.
AwayBefore ==
    /\ systems # <<>>
    /\ \/ systems[1].manual_away
       \/ /\ systems[1].smart_away_enabled
          /\ systems[1].smart_away_setpoint_state \in {"transition", "away"}

ManualBefore == systems # <<>> /\ systems[1].manual_away

AwayAfter ==
    \/ systems'[1].manual_away
    \/ /\ systems'[1].smart_away_enabled
       /\ systems'[1].smart_away_setpoint_state \in {"transition", "away"}

\* The calls of the first event observer with an AwayModeChanged event, among
\* the calls from index i on in the log after the step.
AwayCallsFrom(i) ==
    {j \in i..Len(calls') :
       /\ calls'[j].kind = "event"
       /\ calls'[j].cb = 1
       /\ calls'[j].event.type = "AwayModeChanged"}

\* The payload changes manualAway from false to true.
ManualTurnedOn == ~ManualBefore /\ GetBool(DeliveredOccupancy, "manualAway") = Some(TRUE)

\* C15 as stated: a payload whose occupancy section changes manualAway from
\* false to true fires exactly one AwayModeChanged{away: true} event and
\* is_away() is true afterwards.
C15_AsStated ==
    [][(OccupancyPoll /\ ManualTurnedOn) =>
         /\ Cardinality(AwayCallsFrom(Len(calls) + 1)) = 1
         /\ \A j \in AwayCallsFrom(Len(calls) + 1) : calls'[j].event.away = TRUE
         /\ is_away(systems'[1])]_vars

\* C15 (composite away event), amended: an occupancy section emits one
\* AwayModeChanged, carrying the new value, exactly when is_away() differs
\* before and after it, where is_away() = manual_away OR (smart_away_enabled
\* AND setpoint state is "transition" or "away"); so a payload that changes
\* manualAway from false to true on a system that was not away fires exactly
\* one AwayModeChanged{away: true}, and fires none on a system that smart
\* away already held away; is_away() is true afterwards in both cases; and
\* the successive AwayModeChanged events of a sequence of payloads alternate
\* in value.
C15_CompositeAway ==
    [][OccupancyPoll =>
         /\ is_away(systems'[1]) = AwayAfter
         /\ Cardinality(AwayCallsFrom(Len(calls) + 1)) =
              IF AwayAfter # AwayBefore THEN 1 ELSE 0
         /\ \A j \in AwayCallsFrom(Len(calls) + 1) : calls'[j].event.away = AwayAfter
         /\ ManualTurnedOn => AwayAfter
         /\ \A i, j \in AwayCallsFrom(1) :
              (i < j /\ AwayCallsFrom(i + 1) \cap 1..(j - 1) = {}) =>
                calls'[i].event.away # calls'[j].event.away]_vars

\* A run of three polls that fired AwayModeChanged twice, away and then
\* back, and left the system at home.
C15_Witness ==
    /\ last.op = "poll"
    /\ Len(sent) = 3
    /\ LET away == SelectSeq(calls, LAMBDA c : c.kind = "event" /\ c.cb = 1
                                               /\ c.event.type = "AwayModeChanged")
       IN /\ Len(away) = 2
          /\ away[1].event.away
          /\ ~away[2].event.away
    /\ ~is_away(systems[1])

----------------------------------------------------------------------------
(* SpecHold: zones reported with and without a schedule hold.               *)

\* A zone entry with nothing but its id and a schedule hold.
ZoneHold(zone_id, schedule_id, enabled) ==
    JObj([id |-> JNum(zone_id),
          config |-> JObj([scheduleHold |-> JObj([scheduleId |-> JNum(schedule_id),
                                                  enabled |-> JBool(enabled)])])])

HoldZoneIds == {0, 1}

HoldEntries ==
    {ZoneBare, ZoneHeld, ZoneDownstairs}
    \cup {ZoneHold(z, s, e) : z \in HoldZoneIds, s \in {32, 33}, e \in BOOLEAN}

InitHold == Build(None, MaxCallbacks, MaxCallbacks)

NextHold ==
    \/ Quiet /\ Connect(<<TRUE, TRUE, TRUE>>)
    \/ \E z \in HoldEntries :
          Quiet /\ Poll(Response(200, Delivery(ZonesPayload(<<z>>))), TRUE)
    \/ Return

SpecHold == InitHold /\ [][NextHold]_vars

\* The step is a poll that went through a payload.
PayloadPoll == Quiet /\ last'.op = "poll" /\ last'.result.tag = "Ok"

\* The hold-active flag of zone z in a list of systems, a zone not yet
\* known counting as not held.
HoldActive(sys, z) ==
    /\ sys # <<>>
    /\ IsSome(FindById(sys[1].zones, z))
    /\ Unwrap(FindById(sys[1].zones, z)).override_active

\* What the first event observer was told about the hold of zone z.
HoldCalls(z) ==
    SelectSeq(calls', LAMBDA c : /\ c.kind = "event"
                                 /\ c.cb = 1
                                 /\ c.event.type = "ZoneHoldChanged"
                                 /\ c.event.zone_id = z)

\* C16: ZoneHoldChanged for zone z is emitted while a payload is processed
\* exactly when z's hold-active flag after applying the payload differs from
\* its value before, a zone not yet known counting as not held; a zone seen
\* for the first time with no active hold emits no ZoneHoldChanged.
C16_ZoneHoldChanged ==
    [][PayloadPoll =>
         \A z \in HoldZoneIds :
            (Len(HoldCalls(z)) > 0) <=> (HoldActive(systems', z) # HoldActive(systems, z))]_vars

----------------------------------------------------------------------------
(* SpecAlerts: lists of active alerts, with entries the loop skips.         *)

MaxAlerts == 3

\* An alert entry that does not say whether it is still active.
AlertUnflagged(code) == JObj([alert |-> JObj([code |-> JNum(code)])])

AlertList ==
    {Alert(18, TRUE), Alert(18, FALSE), Alert(19, TRUE), Alert(19, FALSE), Alert(7, TRUE),
     AlertUnflagged(18), EmptyObject}

AlertLists == UNION {[1..n -> AlertList] : n \in 0..MaxAlerts}

InitAlerts == Build(None, MaxCallbacks, MaxCallbacks)

NextAlerts ==
    \/ Quiet /\ Connect(<<TRUE, TRUE, TRUE>>)
    \/ \E entries \in AlertLists :
          Quiet /\ Poll(Response(200, Delivery(AlertsPayload(entries))), TRUE)
    \/ Return

SpecAlerts == InitAlerts /\ [][NextAlerts]_vars

\* The list of active alerts the step delivers.
DeliveredAlerts ==
    Unwrap(Pointer(Unwrap(last'.arg.body.messages[1].Data), <<"alerts", "active">>)).a

\* The positions of a list whose entry carries the code.
WithCode(entries, code) ==
    {i \in 1..Len(entries) : Pointer(entries[i], <<"alert", "code">>) = Some(JNum(code))}

\* isStillActive of the last entry with the code, false if there is none.
LastStillActive(entries, code) ==
    /\ WithCode(entries, code) # {}
    /\ LET i == CHOOSE k \in WithCode(entries, code) :
                   \A m \in WithCode(entries, code) : m <= k
       IN Pointer(entries[i], <<"alert", "isStillActive">>) = Some(JBool(TRUE))

\* What the first event observer was told, in the step, with events of a type.
ToldOf(type) ==
    SelectSeq(calls', LAMBDA c : c.kind = "event" /\ c.cb = 1 /\ c.event.type = type)

\* A lockout flag before the step; a client with no system has none set.
HpBefore == systems # <<>> /\ systems[1].hp_low_ambient_lockout
AuxBefore == systems # <<>> /\ systems[1].aux_heat_high_ambient_lockout

----------------------------------------------------------------------------
(* SpecParams: equipment parameter reports, with and without a value.       *)

ReportedEquipments == {1, 2}
ReportedPids == {304, 305}
ReportedValues == {None, Some("60"), Some("90")}

\* One entry of equipment.parameters: the pid and, when given, the value.
ParamEntry(pid, value) ==
    JObj([parameter |->
            JObj([k \in {"pid", "enabled"} \cup (IF IsSome(value) THEN {"value"} ELSE {}) |->
                    IF k = "pid" THEN JNum(pid)
                    ELSE IF k = "enabled" THEN JBool(TRUE)
                    ELSE JStr(Unwrap(value))])])

ParamsPayload(equip_id, entries) ==
    JObj([equipments |->
            JArr(<<JObj([id |-> JNum(equip_id),
                         equipment |-> JObj([parameters |-> JArr(entries)])])>>)])

\* Reports of one parameter, or of both, each once.
ParamReports ==
    {<<ParamEntry(p, v)>> : p \in ReportedPids, v \in ReportedValues}
    \cup {<<ParamEntry(304, v), ParamEntry(305, w)>> : v, w \in ReportedValues}

InitParams == Build(None, MaxCallbacks, MaxCallbacks)

NextParams ==
    \/ Quiet /\ Connect(<<TRUE, TRUE, TRUE>>)
    \/ \E e \in ReportedEquipments, entries \in ParamReports :
          Quiet /\ Poll(Response(200, Delivery(ParamsPayload(e, entries))), TRUE)
    \/ Return

SpecParams == InitParams /\ [][NextParams]_vars

\* The equipment entry the step delivers.
DeliveredEquipment ==
    Unwrap(Pointer(Unwrap(last'.arg.body.messages[1].Data), <<"equipments">>)).a[1]

\* The value strings the delivered payload carries for a parameter.
CarriedValues(e, pid) ==
    IF Get(DeliveredEquipment, "id") # Some(JNum(e)) THEN {}
    ELSE LET params == Unwrap(Pointer(DeliveredEquipment, <<"equipment", "parameters">>)).a
         IN {Unwrap(Pointer(params[i], <<"parameter", "value">>)).s :
               i \in {j \in 1..Len(params) :
                        /\ Pointer(params[j], <<"parameter", "pid">>) = Some(JNum(pid))
                        /\ IsSome(Pointer(params[j], <<"parameter", "value">>))}}

\* The parameter as the client knew it before the step, if it did.
KnownParameter(e, pid) ==
    IF /\ systems # <<>>
       /\ IsSome(FindById(systems[1].equipments, e))
       /\ pid \in DOMAIN Unwrap(FindById(systems[1].equipments, e)).parameters
    THEN Some(Unwrap(FindById(systems[1].equipments, e)).parameters[pid])
    ELSE None

\* C18: ParameterChanged(equipment, pid) is emitted for a payload exactly
\* when the parameter was already known before the payload and the payload
\* carries a different value string for it; a parameter seen for the first
\* time, or reported again with its value unchanged, fires none.
C18_ParameterChanged ==
    [][PayloadPoll =>
         \A e \in ReportedEquipments, pid \in ReportedPids :
            (\E i \in 1..Len(calls') :
                /\ calls'[i].kind = "event"
                /\ calls'[i].event.type = "ParameterChanged"
                /\ calls'[i].event.equipment_id = e
                /\ calls'[i].event.pid = pid)
            <=> /\ IsSome(KnownParameter(e, pid))
                /\ \E v \in CarriedValues(e, pid) : v # Unwrap(KnownParameter(e, pid)).value]_vars

----------------------------------------------------------------------------
(* SpecRange: writes to the parameters of the equipment fixture, from       *)
(* strings that are numbers on and off the grid, NaN, and no number.        *)

RangeValues == {"30", "60", "65", "90", "240", "300", "abc", "NaN"}

InitRange == Build(None, MaxCallbacks, MaxCallbacks)

NextRange ==
    \/ Quiet /\ Connect(<<TRUE, TRUE, TRUE>>)
    \/ \E ok \in BOOLEAN : Quiet /\ Disconnect(ok)
    \/ \E v \in {"60", "90"} :
          Quiet /\ Poll(Response(200, Delivery(EquipmentPayload(v))), TRUE)
    \/ \E e \in EquipmentIds, p \in ParameterIds, v \in RangeValues, oks \in Oks2 :
          Quiet /\ SetEquipmentParameter(e, p, v, oks)
    \/ Return

SpecRange == InitRange /\ [][NextRange]_vars

\* The step is a call of set_equipment_parameter on a connected client.
ParameterCall == Quiet /\ connected /\ last'.op = "set_equipment_parameter"

\* The parameter the call names, if the client knows it.
NamedParameter ==
    LET equipment == FindEquipmentIn(systems, last'.arg.equipment_id) IN
    IF IsSome(equipment) /\ last'.arg.pid \in DOMAIN Unwrap(equipment).parameters
    THEN Some(Unwrap(equipment).parameters[last'.arg.pid])
    ELSE None

\* The call names an enabled parameter with a range descriptor.
EnabledRange ==
    /\ IsSome(NamedParameter)
    /\ Unwrap(NamedParameter).enabled
    /\ Unwrap(NamedParameter).descriptor.kind = "Range"

\* The string is a number v with min <= v <= max and v = min + k * inc for
\* some integer k >= 0.
OnGrid(value, d) ==
    /\ value \in DOMAIN NumericStrings
    /\ LET v == NumericStrings[value]
       IN /\ d.min <= v
          /\ v <= d.max
          /\ \E k \in 0..(d.max - d.min) : v = d.min + k * d.inc

\* C19 (range parameter validation): for an enabled parameter with range
\* descriptor (min, max, inc), set_equipment_parameter sends the write iff
\* the value parses as a number v with min <= v <= max and v = min + k * inc
\* for some integer k >= 0; in every other case it returns InvalidParameter
\* and sends nothing.
C19_RangeValidation ==
    [][(ParameterCall /\ EnabledRange) =>
         IF OnGrid(last'.arg.value, Unwrap(NamedParameter).descriptor)
         THEN /\ Len(sent') = 1
              /\ sent'[1].data.kind = "set_parameter"
              /\ sent'[1].data.value = last'.arg.value
         ELSE /\ last'.result.tag = "InvalidParameter"
              /\ sent' = <<>>]_vars

\* The call names an equipment or a parameter the client does not know, or a
\* parameter whose enabled flag is false.
NotWritable == NamedParameter = None \/ ~Unwrap(NamedParameter).enabled

\* C20: set_equipment_parameter on an unknown equipment id, an unknown
\* parameter id, or a parameter whose enabled flag is false returns
\* InvalidParameter and sends no request, whatever the value and whether or
\* not it would pass the descriptor's validation.
C20_UnknownOrDisabledRejected ==
    [][(Quiet /\ last'.op = "set_equipment_parameter" /\ NotWritable) =>
         /\ last'.result.tag = "InvalidParameter"
         /\ sent' = <<>>]_vars

\* A connected client refused a write to the read-only parameter of the
\* fixture although the value is valid for the parameter's range.
C20_Witness ==
    /\ connected
    /\ last.op = "set_equipment_parameter"
    /\ last.arg = [equipment_id |-> 1, pid |-> 128, value |-> "90"]
    /\ IsSome(FindEquipmentIn(systems, 1))
    /\ 128 \in DOMAIN Unwrap(FindEquipmentIn(systems, 1)).parameters
    /\ ~Unwrap(FindEquipmentIn(systems, 1)).parameters[128].enabled
    /\ validate_parameter(Unwrap(FindEquipmentIn(systems, 1)).parameters[128], "90").ok
    /\ last.result.tag = "InvalidParameter"
    /\ sent = <<>>

----------------------------------------------------------------------------
(* SpecPoll: polls answered with every kind of status and body, on clients  *)
(* with and without a diagnostic level; a poll that failed may be followed  *)
(* by the next one at once.                                                 *)

AnswerStatuses == {200, 204, 404, 500, 502, 503}

\* A message of the device that carries no Data.
Dataless == Body(<<[SenderID |-> TARGET_LCC, Data |-> None]>>)

\* An envelope whose only message is from another sender.
Foreign == Body(<<Message("mapp012345678901234567890", DiagPayload(0))>>)

AnswerBodies ==
    {EmptyBody, Garbage, Foreign, Dataless, Delivery(DiagPayload(0)),
     Delivery(DiagPayload(TargetLevel)), Delivery(ZonesPayload(<<ZoneBare>>))}

NextPoll ==
    \/ \E oks \in Oks3 : Quiet /\ Connect(oks)
    \/ \E ok \in BOOLEAN : Quiet /\ Disconnect(ok)
    \/ \E status \in AnswerStatuses, body \in AnswerBodies, pub_ok \in BOOLEAN :
          /\ Quiet \/ (last.op = "poll" /\ last.result = Http /\ Len(sent) = 1)
          /\ Poll(Response(status, body), pub_ok)
    \/ \E d \in ConnectTicks : Quiet /\ now + d <= ConnectHorizon /\ Tick(d)
    \/ Return

SpecPoll == InitDiag /\ [][NextPoll]_vars

\* The step is a poll() of a connected client.
ConnectedPoll ==
    /\ connected
    /\ last'.op = "poll"
    /\ Len(sent') > Len(sent)

\* The answer to the step's poll.
Answer == last'.arg

\* The envelope has no message from the device.
NoDeviceMessage(body) ==
    body.parses /\ \A i \in 1..Len(body.messages) : body.messages[i].SenderID # TARGET_LCC

\* The answer is one of those the claim lists: status 204, status 502, or a
\* body read and found unparseable or without a message from the device.
NothingDelivered ==
    \/ Answer.status \in {204, 502}
    \/ /\ Answer.status = 200
       /\ ~Answer.body.parses \/ NoDeviceMessage(Answer.body)

\* The requests the step hands to the transport.
NewRequests == SubSeq(sent', Len(sent) + 1, Len(sent'))

\* C21 (empty polls): a poll that receives status 204, status 502, a body
\* that is not parseable as the expected envelope, or an envelope with no
\* message from the device returns Ok and is a no-op: the domain model, the
\* previous mirror and the enforcer state are unchanged, no observer is
\* invoked and no command is sent.
C21_EmptyPollNoOp ==
    [][(ConnectedPoll /\ NothingDelivered) =>
         /\ last'.result = Ok
         /\ systems' = systems
         /\ previous_json' = previous_json
         /\ diag_enforcer' = diag_enforcer
         /\ diag_reassert_needed' = diag_reassert_needed
         /\ calls' = calls
         /\ NewRequests = <<Request("Retrieve", NoData, TRUE)>>]_vars

\* An envelope with a payload from another sender, received by a connected
\* client whose enforcer would have asked for a reassertion had the payload
\* been the device's.
C21_Witness ==
    /\ connected
    /\ last.op = "poll"
    /\ last.arg = [status |-> 200, body |-> Foreign]
    /\ last.result = Ok
    /\ IsSome(diag_enforcer)
    /\ IsSome(Unwrap(diag_enforcer).last_sent)
    /\ now - Unwrap(Unwrap(diag_enforcer).last_sent) >= DIAG_COOLDOWN_SECS
    /\ systems = <<>>
    /\ calls = <<>>

\* The answer is a 4xx or 5xx status other than 502.
ErrorStatus == Answer.status \in 400..599 /\ Answer.status # 502

\* C22 (failed polls): a poll that receives a 4xx/5xx status other than 502
\* returns a transport error to the caller without retrying: one retrieve
\* request is made and nothing else; the domain model, the previous mirror
\* and the connected flag are unchanged and no observer is invoked, so the
\* next poll() goes to the transport again.
C22_ErrorPollFails ==
    [][/\ (ConnectedPoll /\ ErrorStatus) =>
            /\ last'.result = Http
            /\ NewRequests = <<Request("Retrieve", NoData, TRUE)>>
            /\ systems' = systems
            /\ previous_json' = previous_json
            /\ connected'
            /\ calls' = calls
       /\ (last.op = "poll" /\ last.result = Http /\ last'.op = "poll") =>
            /\ last'.result # NotConnected
            /\ Len(sent') >= Len(sent) + 1
            /\ sent'[Len(sent) + 1].req = "Retrieve"]_vars

\* A poll answered 503 straight after a poll answered 404: both went to the
\* transport, on a client whose model holds a zone.
C22_Witness ==
    /\ connected
    /\ last.op = "poll"
    /\ last.arg.status = 503
    /\ last.result = Http
    /\ Len(sent) = 2
    /\ sent[1] = Request("Retrieve", NoData, TRUE)
    /\ sent[2] = Request("Retrieve", NoData, TRUE)
    /\ systems # <<>>
    /\ calls = <<>>

----------------------------------------------------------------------------
(* SpecCelsius: payloads that change Celsius-named leaves in the system,    *)
(* zone and equipment scopes, and the outdoor temperature pair member by    *)
(* member; a poll may be followed by one more before the caller returns.    *)

\* The Celsius members of the temperature pairs, as the claim lists them.
CelsiusNames ==
    {"temperatureC", "hspC", "cspC", "spC", "outdoorTemperatureC", "maxHspC", "minHspC",
     "maxCspC", "minCspC"}

\* An object holding every Celsius-named leaf, and one other leaf, at v.
CelsiusLeaves(v) == JObj([k \in CelsiusNames \cup {"humidity"} |-> JNum(v)])

CelsiusScopes == {"system", "zone", "equipment"}

CelsiusPayload(scope, v, w) ==
    CASE scope = "system" ->
           JObj([system |-> JObj([config |-> CelsiusLeaves(v),
                                  status |-> JObj([outdoorTemperatureC |-> JNum(w)])])])
      [] scope = "zone" ->
           ZonesPayload(<<JObj([id |-> JNum(0),
                                status |-> JObj([temperatureC |-> JNum(w),
                                                 period |-> CelsiusLeaves(v)])])>>)
      [] scope = "equipment" ->
           JObj([equipments |->
                   JArr(<<JObj([id |-> JNum(1), equipment |-> CelsiusLeaves(v)])>>)])

CelsiusPayloads ==
    {CelsiusPayload(s, v, w) : s \in CelsiusScopes, v \in {1, 2}, w \in {C(220), C(240)}}
    \cup {SystemPayload(f, c) : f \in {72, 75}, c \in {C(220), C(240)}}

InitCelsius == Build(None, MaxCallbacks, MaxCallbacks)

NextCelsius ==
    \/ Quiet /\ Connect(<<TRUE, TRUE, TRUE>>)
    \/ \E p \in CelsiusPayloads :
          /\ Quiet \/ (last.op = "poll" /\ Len(sent) = 1)
          /\ Poll(Response(200, Delivery(p)), TRUE)
    \/ Return

SpecCelsius == InitCelsius /\ [][NextCelsius]_vars

\* The events the first event observer was handed in the step.
EventsTold ==
    LET told == SelectSeq(SubSeq(calls', Len(calls) + 1, Len(calls')),
                          LAMBDA c : c.kind = "event" /\ c.cb = 1)
    IN [i \in 1..Len(told) |-> told[i].event]

\* The step is a poll that went through a payload, from a quiet state or
\* straight after another poll.
DeliveringPoll ==
    /\ last'.op = "poll"
    /\ last'.result.tag = "Ok"
    /\ Len(sent') = Len(sent) + 1

\* The event is one for a leaf of its own: it names the path of the leaf.
NamesLeaf(e) == "path" \in DOMAIN e /\ e.path # <<>>

\* The payload of the step changes the Celsius member of the outdoor
\* temperature pair and leaves the Fahrenheit member as the mirror has it.
OnlyOutdoorCelsius ==
    LET data == Unwrap(Answer.body.messages[1].Data)
        f == Pointer(data, <<"system", "status", "outdoorTemperature">>)
        c == Pointer(data, <<"system", "status", "outdoorTemperatureC">>)
    IN /\ DOMAIN data.o = {"system"}
       /\ DOMAIN Unwrap(Get(data, "system")).o = {"status"}
       /\ IsSome(f)
       /\ f = Pointer(previous_json, <<"system", "status", "outdoorTemperature">>)
       /\ c # Pointer(previous_json, <<"system", "status", "outdoorTemperatureC">>)

\* C23 (Celsius-companion suppression): a changed leaf whose name is the
\* Celsius member of a temperature pair never produces an event of its own,
\* in any scope; a payload changing only status.outdoorTemperatureC with its
\* Fahrenheit twin unchanged produces no event.
C23_CelsiusSuppressed ==
    [][DeliveringPoll =>
         /\ \A i \in 1..Len(EventsTold) :
              NamesLeaf(EventsTold[i]) =>
                EventsTold[i].path[Len(EventsTold[i].path)] \notin CelsiusNames
         /\ OnlyOutdoorCelsius => EventsTold = <<>>]_vars

\* Two polls in a row: the first reported the pair 72 / 22.0 and fired the
\* typed event, the second reported 72 / 24.0 and fired nothing.
C23_Witness ==
    /\ last.op = "poll"
    /\ last.arg.body = Delivery(SystemPayload(72, C(240)))
    /\ Len(sent) = 2
    /\ SelectSeq(calls, LAMBDA c : c.kind = "event" /\ c.cb = 1) =
         <<[kind |-> "event", cb |-> 1,
            event |-> [type |-> "OutdoorTempChanged", temp |-> from_pair(72, C(220))]]>>
    /\ Pointer(previous_json, <<"system", "status", "outdoorTemperatureC">>)
         = Some(JNum(C(240)))

----------------------------------------------------------------------------
(* SpecLeaves: the typed Fahrenheit / Celsius pairs of the system and zone  *)
(* scopes reported member by member: either member may be missing, and the  *)
(* Celsius member may be a string.  A fresh client polls twice in a row.    *)

\* An object with the keys whose value is given (an Option per key).
Fields(opts) ==
    JObj([k \in {key \in DOMAIN opts : IsSome(opts[key])} |-> Unwrap(opts[k])])

OutdoorReports == {None, Some(JNum(72)), Some(JNum(75))}
OutdoorCompanions == {None, Some(JNum(C(220))), Some(JNum(C(240))), Some(JStr("n/a"))}
RoomReports == {None, Some(JNum(71)), Some(JNum(72))}
RoomCompanions == {None, Some(JNum(C(215))), Some(JStr("n/a"))}
HeatReports == {None, Some(JNum(70)), Some(JNum(71))}
HeatCompanions == {None, Some(JNum(C(210))), Some(JStr("n/a"))}
CoolReports == {None, Some(JNum(76))}
CoolCompanions == {None, Some(JNum(C(245)))}

OutdoorPayload(f, c) ==
    JObj([system |->
            JObj([status |-> Fields([outdoorTemperature |-> f, outdoorTemperatureC |-> c])])])

RoomPayload(f, c) ==
    ZonesPayload(<<JObj([id |-> JNum(0),
                         status |-> Fields([temperature |-> f, temperatureC |-> c])])>>)

PeriodPayload(h, hc, c, cc) ==
    ZonesPayload(<<JObj([id |-> JNum(0),
                         status |-> JObj([period |-> Fields([hsp |-> h, hspC |-> hc,
                                                             csp |-> c, cspC |-> cc])])])>>)

LeafPayloads ==
    {OutdoorPayload(f, c) : f \in OutdoorReports, c \in OutdoorCompanions}
    \cup {RoomPayload(f, c) : f \in RoomReports, c \in RoomCompanions}
    \cup UNION {{PeriodPayload(h, hc, c, cc) : h \in HeatReports, hc \in HeatCompanions} :
                  c \in CoolReports, cc \in CoolCompanions}

InitLeaves == Build(None, MaxCallbacks, MaxCallbacks)

NextLeaves ==
    \/ Quiet /\ Connect(<<TRUE, TRUE, TRUE>>)
    \/ \E p \in LeafPayloads :
          /\ (Quiet /\ systems = <<>>) \/ (last.op = "poll" /\ Len(sent) = 1)
          /\ Poll(Response(200, Delivery(p)), TRUE)
    \/ Return

SpecLeaves == InitLeaves /\ [][NextLeaves]_vars

\* The payload of the step, the subtree of the one scope it reports, and the
\* mirror's subtree for that scope before the step.
Delivered == Unwrap(Answer.body.messages[1].Data)
ScopeReported ==
    IF IsSome(Get(Delivered, "system")) THEN Unwrap(Get(Delivered, "system"))
    ELSE Unwrap(Get(Delivered, "zones")).a[1]
ScopeMirrored ==
    IF IsSome(Get(Delivered, "system"))
    THEN PointerOr(previous_json, <<"system">>, EmptyObject)
    ELSE PointerOr(previous_json, <<"zones", "0">>, EmptyObject)

\* The leaves the payloads of this specification can hold.
LeafPaths ==
    {<<"id">>, <<"status", "outdoorTemperature">>, <<"status", "outdoorTemperatureC">>,
     <<"status", "temperature">>, <<"status", "temperatureC">>,
     <<"status", "period", "hsp">>, <<"status", "period", "hspC">>,
     <<"status", "period", "csp">>, <<"status", "period", "cspC">>}

\* The leaves the step's payload changes.
ChangedLeaves ==
    {p \in LeafPaths : /\ IsSome(Pointer(ScopeReported, p))
                       /\ Pointer(ScopeReported, p) # Pointer(ScopeMirrored, p)}

\* The type of the typed event of a path, "" for a path that has none.
TypedEventOf(p) ==
    CASE p = <<"status", "outdoorTemperature">> -> "OutdoorTempChanged"
      [] p = <<"status", "temperature">> -> "ZoneTemperatureChanged"
      [] p \in {<<"status", "period", "hsp">>, <<"status", "period", "csp">>} ->
           "ZoneSetpointsChanged"
      [] OTHER -> ""

\* C24 (one event per leaf): each changed leaf produces at most one event, a
\* typed event excluding the generic one for its path; a payload in which
\* both members of a typed pair change yields exactly one event for the
\* pair, the typed temperature event carrying the Celsius value.
C24_OneEventPerLeaf ==
    [][DeliveringPoll =>
         \A told \in {EventsTold}, changed \in {ChangedLeaves}, reported \in {ScopeReported} :
           LET leaf == SelectSeq(told, LAMBDA e : e.type # "ZoneHoldChanged")
               named == {i \in 1..Len(leaf) : NamesLeaf(leaf[i])}
               types == {leaf[i].type : i \in 1..Len(leaf)}
               both(f_path, c_path) ==
                   /\ {f_path, c_path} \subseteq changed
                   /\ Unwrap(Pointer(reported, f_path)).t = "num"
                   /\ Unwrap(Pointer(reported, c_path)).t = "num"
               about(f_path, c_path) ==
                   SelectSeq(leaf, LAMBDA e : \/ e.type = TypedEventOf(f_path)
                                              \/ NamesLeaf(e) /\ e.path \in {f_path, c_path})
           IN
           /\ Len(leaf) <= Cardinality(changed)
           /\ \A i \in named :
                /\ leaf[i].path \in changed
                /\ \A j \in named : leaf[j].path = leaf[i].path => j = i
                /\ TypedEventOf(leaf[i].path) \notin types
           /\ both(<<"status", "outdoorTemperature">>, <<"status", "outdoorTemperatureC">>)
                => told = <<[type |-> "OutdoorTempChanged",
                             temp |-> from_celsius(
                                        Unwrap(Pointer(reported,
                                                       <<"status", "outdoorTemperatureC">>)).n)]>>
           /\ both(<<"status", "temperature">>, <<"status", "temperatureC">>)
                => /\ Len(about(<<"status", "temperature">>, <<"status", "temperatureC">>)) = 1
                   /\ about(<<"status", "temperature">>, <<"status", "temperatureC">>)[1].temp
                        = from_celsius(Unwrap(Pointer(reported,
                                                      <<"status", "temperatureC">>)).n)]_vars

\* The payload of the claim, outdoorTemperature 72 with outdoorTemperatureC
\* 22.0, on a client that knew neither: one observer call for the event.
C24_Witness ==
    /\ last.op = "poll"
    /\ last.arg.body = Delivery(OutdoorPayload(Some(JNum(72)), Some(JNum(C(220)))))
    /\ SelectSeq(calls, LAMBDA c : c.kind = "event" /\ c.cb = 1) =
         <<[kind |-> "event", cb |-> 1,
            event |-> [type |-> "OutdoorTempChanged", temp |-> C(220)]]>>

----------------------------------------------------------------------------
(* SpecReassert: the reassertion of the diagnostic level at the end of      *)
(* poll().  The device answers with one or two payloads that report a       *)
(* level; the reassertion publish succeeds or fails; the caller polls again *)
(* at once after a poll that failed in its publish.                         *)

ReassertBodies ==
    {Delivery(DiagPayload(level)) : level \in ReportedLevels}
        \cup {Delivery2(DiagPayload(first), DiagPayload(second)) :
                 first \in ReportedLevels, second \in ReportedLevels}

NextReassert ==
    \/ \E oks \in Oks3 : Quiet /\ Connect(oks)
    \/ \E body \in ReassertBodies, pub_ok \in BOOLEAN :
          /\ Quiet \/ (last.op = "poll" /\ last.result = Http /\ Len(sent) = 2)
          /\ Poll(Response(200, body), pub_ok)
    \/ \E d \in ConnectTicks : Quiet /\ now + d <= ConnectHorizon /\ Tick(d)
    \/ Return

SpecReassert == InitDiag /\ [][NextReassert]_vars

\* The step is a poll() that sent the command setting the diagnostic level.
ReassertingPoll ==
    /\ last'.op = "poll"
    /\ DiagCommands(NewRequests) # {}

\* C25 (the guard of every reassertion): when poll() sends a reassertion,
\* fewer than 3 sends are counted in the current window, 300 seconds or more
\* have passed since the previous command that set the diagnostic level (no
\* such command is in the transport's log of this same instant, and the last
\* recorded one is 300 seconds old), and the counter does not exceed 3.
C25_GuardedReassertion ==
    [][ReassertingPoll =>
         LET e == Unwrap(diag_enforcer)
             counted == IF now - e.hour_start >= HOUR_SECS
                        THEN 0 ELSE e.attempts_this_hour
         IN
         /\ counted < DIAG_MAX_ATTEMPTS_PER_HOUR
         /\ (IsSome(e.last_sent) =>
                now - Unwrap(e.last_sent) >= DIAG_COOLDOWN_SECS)
         /\ DiagCommands(sent) = {}
         /\ Unwrap(diag_enforcer').attempts_this_hour
                <= DIAG_MAX_ATTEMPTS_PER_HOUR]_vars

\* C26 (a reassertion only below the target): when poll() sends a
\* reassertion, the diagnostic level of the first system at the end of that
\* poll has been observed and is below the target level, with one payload
\* or with several.
C26_ReassertOnlyBelowTarget ==
    [][ReassertingPoll =>
         /\ IsSome(current_level(systems'))
         /\ Unwrap(current_level(systems')) < Unwrap(diag_enforcer').target_level]_vars

\* The model, the mirror and the observer calls that reconciling every
\* payload of the step's response, in order, leads to.
Reconciled ==
    ProcessAll([systems |-> systems, previous_json |-> previous_json,
                enforcer |-> diag_enforcer, reassert |-> diag_reassert_needed,
                calls |-> <<>>],
               parse_retrieve_response(last'.arg.body), now,
               event_callbacks, snapshot_callbacks)

\* The sends the enforcer counts in its current window at the time of the step.
CountedNow ==
    IF now - Unwrap(diag_enforcer).hour_start >= HOUR_SECS
    THEN 0 ELSE Unwrap(diag_enforcer).attempts_this_hour

\* C38 (one reassertion at the end of poll): a poll() sends at most one
\* command setting the diagnostic level, as its last request, with the
\* model, the mirror and the observer calls being those of all the payloads
\* of the response; when that publish fails the poll returns the transport
\* error with the payloads applied, the enforcer counts no send and keeps
\* the time of its last send, and the pending flag is cleared; when it
\* succeeds the send is counted; no poll leaves the pending flag set.
C38_ReassertionAtEndOfPoll ==
    [][(connected /\ last'.op = "poll") =>
         /\ Cardinality(DiagCommands(NewRequests)) <= 1
         /\ ~diag_reassert_needed'
         /\ ReassertingPoll =>
              \A after \in {Reconciled} :
                 /\ DiagCommands(NewRequests) = {Len(NewRequests)}
                 /\ systems' = after.systems
                 /\ previous_json' = after.previous_json
                 /\ calls' = calls \o after.calls
                 /\ IF NewRequests[Len(NewRequests)].ok
                    THEN /\ last'.result = Ok
                         /\ Unwrap(diag_enforcer').attempts_this_hour = CountedNow + 1
                         /\ Unwrap(diag_enforcer').last_sent = Some(now)
                    ELSE /\ last'.result = Http
                         /\ Unwrap(diag_enforcer').attempts_this_hour = CountedNow
                         /\ Unwrap(diag_enforcer').last_sent
                              = Unwrap(diag_enforcer).last_sent]_vars

\* A poll of two payloads, the second reporting a level below the target,
\* whose reassertion failed: both payloads are applied and observed, the
\* error is returned, the enforcer counts the one send of the handshake and
\* the flag is clear.
C38_Witness ==
    /\ last.op = "poll"
    /\ last.result = Http
    /\ Len(last.arg.body.messages) = 2
    /\ Len(sent) = 2
    /\ DiagCommands(sent) = {2}
    /\ ~sent[2].ok
    /\ systems # <<>>
    /\ systems[1].diag_level = Some(0)
    /\ Len(SelectSeq(calls, LAMBDA c : c.kind = "snapshot" /\ c.cb = 1)) = 2
    /\ Unwrap(diag_enforcer).attempts_this_hour = 1
    /\ ~diag_reassert_needed

----------------------------------------------------------------------------
(* SpecWindow: a polling loop.  The client connects at time 0 and polls     *)
(* every PollPeriod seconds without the transport's log being cleared, so   *)
(* the log keeps every request since connect() and the time of each one     *)
(* follows from the retrieve requests before it.  Every request succeeds;   *)
(* the device answers with nothing or with a payload reporting a level.     *)

PollPeriod == 600
WindowHorizon == 4800

\* The number of retrieve requests among the first i requests of the log.
RECURSIVE Retrievals(_, _)
Retrievals(reqs, i) ==
    IF i = 0 THEN 0
    ELSE Retrievals(reqs, i - 1) + (IF reqs[i].req = "Retrieve" THEN 1 ELSE 0)

\* The time at which the i-th request of the log was made.
SentAt(reqs, i) == PollPeriod * Retrievals(reqs, i)

WindowAnswers ==
    {Response(204, EmptyBody)}
        \cup {Response(200, Delivery(DiagPayload(level))) : level \in ReportedLevels}

NextWindow ==
    \/ Quiet /\ ~connected /\ Connect(<<TRUE, TRUE, TRUE>>)
    \/ \E resp \in WindowAnswers :
          /\ connected
          /\ now = PollPeriod * (Retrievals(sent, Len(sent)) + 1)
          /\ Poll(resp, TRUE)
    \/ /\ connected
       /\ now = PollPeriod * Retrievals(sent, Len(sent))
       /\ now + PollPeriod <= WindowHorizon
       /\ Tick(PollPeriod)

SpecWindow == InitDiag /\ [][NextWindow]_vars

\* C27 (rolling-hour cap): of the commands setting the diagnostic level that
\* the client has sent since connect(), no four lie less than 3600 seconds
\* apart.
C27_RollingHourCap ==
    \A i \in DiagCommands(sent), j \in DiagCommands(sent) :
        (i < j /\ Cardinality({k \in DiagCommands(sent) : i <= k /\ k <= j}) > 3)
            => SentAt(sent, j) - SentAt(sent, i) >= HOUR_SECS

----------------------------------------------------------------------------
(* The order of the observers' calls over a whole poll, under SpecObservers *)

\* C28 (poll-level ordering): of the calls made by one poll(), whatever the
\* number of payloads in its response, every event observer call precedes
\* every snapshot observer call.
C28_PollEventsBeforeSnapshots ==
    last.op = "poll" =>
      \A a, b \in 1..Len(calls) :
         (a < b /\ calls[a].kind = "snapshot") => calls[b].kind = "snapshot"

----------------------------------------------------------------------------
(* SpecOrder: payloads made of several sections at once, zones and          *)
(* equipment listed out of the order of their ids, on a client with several *)
(* observers.  A fresh client polls twice in a row.                         *)

\* Zone 1 with another heating setpoint.
ZoneDownstairsWarm ==
    JObj([id |-> JNum(1), name |-> JStr("Downstairs"),
          status |-> JObj([period |-> Period(69, C(205), 78, C(255))]),
          config |-> JObj([scheduleId |-> JNum(17)])])

\* One equipment reporting its type and parameter 304.
EquipmentReport(equip_id, equip_type, value) ==
    JObj([id |-> JNum(equip_id),
          equipment |-> JObj([equipType |-> JNum(equip_type),
                              parameters |-> JArr(<<ParamEntry(304, Some(value))>>)])])

OrderSystems ==
    {Get(SystemPayload(f, c), "system") : <<f, c>> \in {<<72, C(220)>>, <<75, C(240)>>}}
OrderOccupancies == {None, Get(OccupancyPayload(TRUE), "occupancy")}
OrderZones ==
    {None, Some(JArr(<<ZoneDownstairs, ZoneUpstairs>>)),
     Some(JArr(<<ZoneHeld, ZoneDownstairsWarm>>))}
OrderEquipments ==
    {Some(JArr(<<EquipmentReport(2, 18, "60"), EquipmentReport(1, 18, "60")>>)),
     Some(JArr(<<EquipmentReport(2, 19, "90"), EquipmentReport(1, 19, "90")>>))}
OrderAlerts ==
    {None} \cup {Get(AlertsPayload(entries), "alerts") :
                    entries \in {<<Alert(18, TRUE)>>, <<Alert(19, TRUE), Alert(18, FALSE)>>}}

OrderPayloads ==
    {Fields([system |-> s, occupancy |-> o, zones |-> z, equipments |-> e, alerts |-> a]) :
        s \in OrderSystems, o \in OrderOccupancies, z \in OrderZones,
        e \in OrderEquipments, a \in OrderAlerts}

NextOrder ==
    \/ Quiet /\ Connect(<<TRUE, TRUE, TRUE>>)
    \/ \E p \in OrderPayloads :
          /\ (Quiet /\ systems = <<>>) \/ (last.op = "poll" /\ Len(sent) = 1)
          /\ Poll(Response(200, Delivery(p)), TRUE)
    \/ Return

SpecOrder == InitObservers /\ [][NextOrder]_vars

\* The position of the entry with the id in a section that is an array, 0
\* when the payload has no such entry.
EntryPosition(payload, section, id) ==
    IF Get(payload, section) = None THEN 0
    ELSE LET entries == Unwrap(Get(payload, section)).a
             at == {i \in 1..Len(entries) : Get(entries[i], "id") = Some(JNum(id))}
         IN IF at = {} THEN 0 ELSE CHOOSE i \in at : TRUE

\* The place of an event in the order of the claim: the section, the
\* position of the zone or equipment in its array, and the place within the
\* entry.
EventPlace(payload, e) ==
    CASE e.type \in {"OutdoorTempChanged", "SystemNumeric", "SystemString", "SystemBool"} ->
           <<1, 0, 0>>
      [] e.type = "AwayModeChanged" -> <<2, 0, 0>>
      [] e.type = "ZoneHoldChanged" -> <<3, EntryPosition(payload, "zones", e.zone_id), 2>>
      [] e.type \in {"ZoneNumeric", "ZoneString", "ZoneBool"} ->
           <<3, EntryPosition(payload, "zones", e.id), 1>>
      [] e.type \in {"EquipmentNumeric", "EquipmentString", "EquipmentBool"} ->
           <<4, EntryPosition(payload, "equipments", e.id), 1>>
      [] e.type = "ParameterChanged" ->
           <<4, EntryPosition(payload, "equipments", e.equipment_id), 2>>
      [] e.type = "AlertChanged" -> <<5, 0, 0>>
      [] e.type \in {"HpLockoutChanged", "AuxLockoutChanged"} -> <<6, 0, 0>>
      [] OTHER -> <<3, EntryPosition(payload, "zones", e.zone_id), 1>>

\* Not later in the order: by section, then entry, then place in the entry.
NotAfter(p, q) ==
    \/ p[1] < q[1]
    \/ p[1] = q[1] /\ p[2] < q[2]
    \/ p[1] = q[1] /\ p[2] = q[2] /\ p[3] <= q[3]

\* C29 (order of the events of one payload): the events of a payload are
\* delivered in the order system-scope events, AwayModeChanged, then per
\* zone in array order its leaf events and then its ZoneHoldChanged, then
\* per equipment in array order its generic events and then its
\* ParameterChanged events, then the AlertChanged events and then the
\* lockout events; each event goes to every event observer in registration
\* order before the next event is delivered.
C29_SectionOrder ==
    [][DeliveringPoll =>
         \A made \in {SelectSeq(SubSeq(calls', Len(calls) + 1, Len(calls')),
                                LAMBDA c : c.kind = "event")},
            payload \in {Unwrap(last'.arg.body.messages[1].Data)} :
            /\ Len(made) % event_callbacks = 0
            /\ \A i \in 1..Len(made) :
                 /\ made[i].cb = ((i - 1) % event_callbacks) + 1
                 /\ made[i].event = made[i - (made[i].cb - 1)].event
            /\ \A i, j \in 1..Len(made) :
                 i < j => NotAfter(EventPlace(payload, made[i].event),
                                   EventPlace(payload, made[j].event))]_vars

\* A second poll whose payload had all five sections and changed something
\* in each: after the snapshot calls of the first poll, both observers are
\* told of a system event, of the away mode, of a hold on the zone listed
\* first and a setpoint of the zone listed second, of a leaf and a parameter
\* of equipment 2 and then of equipment 1, of an alert and of a lockout.
C29_Witness ==
    /\ last.op = "poll"
    /\ Len(sent) = 2
    /\ \E first \in 1..Len(calls) :
          /\ calls[first].kind = "snapshot"
          /\ \A type \in {"OutdoorTempChanged", "AwayModeChanged", "ZoneHoldChanged",
                          "ZoneSetpointsChanged", "ParameterChanged", "EquipmentNumeric",
                          "AlertChanged", "HpLockoutChanged"} :
                \E i \in (first + 1)..Len(calls) :
                   /\ calls[i].kind = "event"
                   /\ calls[i].cb = ObserverCount
                   /\ calls[i].event.type = type
          /\ \E i, j \in (first + 1)..Len(calls) :
                /\ i < j
                /\ calls[i].kind = "event" /\ calls[i].event.type = "ParameterChanged"
                /\ calls[i].event.equipment_id = 2
                /\ calls[j].kind = "event" /\ calls[j].event.type = "EquipmentNumeric"
                /\ calls[j].event.id = 1

----------------------------------------------------------------------------
(* Folding with a member missing, under SpecLeaves *)

\* The typed Fahrenheit paths, each with the path of its Celsius companion.
FoldedPairs ==
    {<<<<"status", "outdoorTemperature">>, <<"status", "outdoorTemperatureC">>>>,
     <<<<"status", "temperature">>, <<"status", "temperatureC">>>>,
     <<<<"status", "period", "hsp">>, <<"status", "period", "hspC">>>>,
     <<<<"status", "period", "csp">>, <<"status", "period", "cspC">>>>}

\* C30 (folding requires both members): when the Fahrenheit leaf of a typed
\* pair changes, alone among the leaves of its typed event, and its Celsius
\* companion is missing or not a number in the same payload, no typed event
\* is emitted for the leaf and a generic numeric event naming the raw path
\* is emitted instead.
C30_FoldingNeedsBoth ==
    [][DeliveringPoll =>
         \A told \in {EventsTold}, changed \in {ChangedLeaves}, reported \in {ScopeReported} :
         \A pair \in FoldedPairs :
            (/\ pair[1] \in changed
             /\ \A q \in changed : TypedEventOf(q) = TypedEventOf(pair[1]) => q = pair[1]
             /\ \/ Pointer(reported, pair[2]) = None
                \/ Unwrap(Pointer(reported, pair[2])).t # "num")
            => /\ \A i \in 1..Len(told) : told[i].type # TypedEventOf(pair[1])
               /\ \E i \in 1..Len(told) :
                     /\ NamesLeaf(told[i])
                     /\ told[i].path = pair[1]
                     /\ told[i].type \in {"SystemNumeric", "ZoneNumeric"}]_vars

----------------------------------------------------------------------------
(* SpecPartial: partial reports of zone 0.  Each payload carries any of the *)
(* fan state, the fan mode, the heating pair and the cooling pair; a fresh  *)
(* client polls twice in a row.                                             *)

FanReports == {None, Some(JBool(TRUE)), Some(JBool(FALSE))}
FanModeReports == {None, Some(JStr("on")), Some(JStr("circulate"))}
HeatPairs == {None, Some(<<70, C(210)>>), Some(<<71, C(215)>>)}
CoolPairs == {None, Some(<<76, C(245)>>)}

\* The member of a pair as a number, if the pair is reported.
Member(pair, i) == IF IsSome(pair) THEN Some(JNum(Unwrap(pair)[i])) ELSE None

PartialPeriod(fan_mode, heat, cool) ==
    IF fan_mode = None /\ heat = None /\ cool = None THEN None
    ELSE Some(Fields([fanMode |-> fan_mode,
                      hsp |-> Member(heat, 1), hspC |-> Member(heat, 2),
                      csp |-> Member(cool, 1), cspC |-> Member(cool, 2)]))

PartialPayload(fan, fan_mode, heat, cool) ==
    ZonesPayload(<<JObj([id |-> JNum(0),
                         status |-> Fields([fan |-> fan,
                                            period |-> PartialPeriod(fan_mode, heat, cool)])])>>)

PartialPayloads ==
    {PartialPayload(fan, fan_mode, heat, cool) :
        fan \in FanReports, fan_mode \in FanModeReports,
        heat \in HeatPairs, cool \in CoolPairs}

NextPartial ==
    \/ Quiet /\ Connect(<<TRUE, TRUE, TRUE>>)
    \/ \E p \in PartialPayloads :
          /\ (Quiet /\ systems = <<>>) \/ (last.op = "poll" /\ Len(sent) = 1)
          /\ Poll(Response(200, Delivery(p)), TRUE)
    \/ Return

SpecPartial == InitLeaves /\ [][NextPartial]_vars

\* C31 (typed events from the complete current state): a ZoneFanChanged
\* carries the fan mode and the fan state the zone has after the payload,
\* and a ZoneSetpointsChanged the heating and cooling setpoints the zone has
\* after the payload, whichever of them the payload itself carried.
C31_EventsFromCurrentState ==
    [][DeliveringPoll =>
         \A told \in {EventsTold}, zone \in {systems'[1].zones[1]} :
         \A i \in 1..Len(told) :
            /\ told[i].type = "ZoneFanChanged" =>
                 /\ IsSome(zone.fan_mode) => told[i].mode = Unwrap(zone.fan_mode)
                 /\ told[i].running = zone.fan_running
            /\ told[i].type = "ZoneSetpointsChanged" =>
                 /\ told[i].heat = zone.heat_setpoint
                 /\ told[i].cool = zone.cool_setpoint]_vars

----------------------------------------------------------------------------
(* SpecDiff: diff_json called on two trees.  The trees are objects of up to *)
(* three levels, and scalars; the call and its answer are recorded as the   *)
(* last call.                                                               *)

DiffLeaves == {JNum(70), JNum(71), JStr("on")}

\* The object with the two keys, each absent or holding one of the values.
TwoKeys(k1, vs1, k2, vs2) ==
    {JObj([k \in (IF a = None THEN {} ELSE {k1}) \cup (IF b = None THEN {} ELSE {k2}) |->
             IF k = k1 THEN Unwrap(a) ELSE Unwrap(b)]) :
        a \in {None} \cup {Some(v) : v \in vs1}, b \in {None} \cup {Some(v) : v \in vs2}}

DiffPeriods == TwoKeys("hsp", {JNum(70), JNum(71)}, "fanMode", {JStr("on")})
DiffStatuses == TwoKeys("period", {JNum(70)} \cup DiffPeriods, "fan", {JStr("on")})
DiffTrees ==
    DiffLeaves \cup TwoKeys("status", {JNum(70)} \cup DiffStatuses, "id", {JNum(70)})

\* diff_json(previous, current, "", &mut changes) and the changes it leaves.
DiffCall(previous, current) ==
    /\ last' = [op |-> "diff_json",
                arg |-> [previous |-> previous, current |-> current],
                result |-> diff_json(previous, current, <<>>)]
    /\ UNCHANGED <<connected, systems, previous_json, event_callbacks, snapshot_callbacks,
                   diag_enforcer, diag_reassert_needed, now, sent, calls>>

NextDiff ==
    \/ \E previous \in DiffTrees, current \in DiffTrees :
          Quiet /\ DiffCall(previous, current)
    \/ Return

SpecDiff == InitLeaves /\ [][NextDiff]_vars

\* The leaves of a tree: every value that is not an object, with its path.
RECURSIVE LeavesOf(_, _)
LeavesOf(v, prefix) ==
    IF is_object(v)
    THEN UNION {LeavesOf(v.o[k], Append(prefix, k)) : k \in DOMAIN v.o}
    ELSE {[path |-> prefix, new |-> v]}

\* C32 (structural differ): diff(previous, current) reports each leaf of
\* current whose value differs from previous or is absent from it, once,
\* under its path, and nothing else; diff(x, x) is empty and so is
\* diff(previous deep-merged with current, current).
C32_DiffReportsLeaves ==
    last.op = "diff_json" =>
      LET previous == last.arg.previous
          current == last.arg.current
          changes == last.result
      IN
      /\ {[path |-> changes[i].path, new |-> changes[i].new] : i \in 1..Len(changes)}
           = {l \in LeavesOf(current, <<>>) : Pointer(previous, l.path) # Some(l.new)}
      /\ \A i, j \in 1..Len(changes) : changes[i].path = changes[j].path => i = j
      /\ previous = current => changes = <<>>
      /\ diff_json(deep_merge(previous, current), current, <<>>) = <<>>

----------------------------------------------------------------------------
(* SpecSenders: responses of up to three messages, each from the device,    *)
(* from another sender, or from the device without a Data field.            *)

SenderPayloads == {ZonesPayload(<<ZoneUpstairs>>), ZonesPayload(<<ZoneWarm>>)}

SenderMessages ==
    {Message(sender, p) : sender \in {TARGET_LCC, "mapp012345678901234567890"},
                          p \in SenderPayloads}
        \cup {[SenderID |-> TARGET_LCC, Data |-> None]}

SenderBodies ==
    {Body(<<m>>) : m \in SenderMessages}
        \cup {Body(<<m, n>>) : m \in SenderMessages, n \in SenderMessages}
        \cup {Body(<<m, n, o>>) : m \in SenderMessages, n \in SenderMessages,
                                   o \in SenderMessages}

NextSenders ==
    \/ Quiet /\ Connect(<<TRUE, TRUE, TRUE>>)
    \/ \E body \in SenderBodies : Quiet /\ Poll(Response(200, body), TRUE)
    \/ Return

SpecSenders == InitLeaves /\ [][NextSenders]_vars

\* The payloads of the messages of the device that have one, in the order of
\* the response.
FromDevice(body) ==
    LET device == SelectSeq(body.messages,
                            LAMBDA m : m.SenderID = TARGET_LCC /\ IsSome(m.Data))
    IN [i \in 1..Len(device) |-> Unwrap(device[i].Data)]

\* C33 (only the device's messages are reconciled): a poll of a connected
\* client leaves the model, the mirror and the observers' log as reconciling
\* the payloads of the device's messages alone, in the order of the response,
\* leaves them; with no such message nothing changes and no observer is
\* called.
C33_OnlyDeviceMessages ==
    [][(connected /\ last'.op = "poll") =>
         \A after \in {ProcessAll([systems |-> systems, previous_json |-> previous_json,
                                   enforcer |-> diag_enforcer,
                                   reassert |-> diag_reassert_needed, calls |-> <<>>],
                                  FromDevice(last'.arg.body), now,
                                  event_callbacks, snapshot_callbacks)} :
            /\ systems' = after.systems
            /\ previous_json' = after.previous_json
            /\ calls' = calls \o after.calls
            /\ FromDevice(last'.arg.body) = <<>> =>
                 /\ systems' = systems
                 /\ previous_json' = previous_json
                 /\ calls' = calls]_vars

\* A response whose first message is an echo from another sender, whose
\* second is from the device and whose third is from the device without
\* Data, on a client that knew the zone at another temperature: the model
\* holds the device's value and the observers were called.
C33_Witness ==
    /\ last.op = "poll"
    /\ Len(last.arg.body.messages) = 3
    /\ last.arg.body.messages[1] = Message("mapp012345678901234567890",
                                           ZonesPayload(<<ZoneUpstairs>>))
    /\ last.arg.body.messages[2] = Message(TARGET_LCC, ZonesPayload(<<ZoneWarm>>))
    /\ last.arg.body.messages[3].Data = None
    /\ systems # <<>>
    /\ systems[1].zones[1].temperature = Some(C(240))
    /\ calls # <<>>
    /\ \A i \in 1..Len(calls) :
          calls[i].kind = "event" => calls[i].event.type = "ZoneTemperatureChanged"

----------------------------------------------------------------------------
(* SpecEntities: payloads that mention zones and equipment by id, the ids   *)
(* small or beyond the width of the field that stores them.                 *)

MentionedZones == {0, 1, 256}
MentionedEquipments == {1, 2}

\* A zone entry with its id and a temperature.
ZoneMention(id) ==
    JObj([id |-> JNum(id),
          status |-> JObj([temperature |-> JNum(72), temperatureC |-> JNum(C(220))])])

EntityPayloads ==
    {ZonesPayload(<<ZoneMention(z)>>) : z \in MentionedZones}
        \cup {ZonesPayload(<<ZoneMention(z), ZoneMention(y)>>) :
                 z \in MentionedZones, y \in MentionedZones}
        \cup {ParamsPayload(e, <<ParamEntry(pid, Some("60"))>>) :
                 e \in MentionedEquipments, pid \in ReportedPids}
        \cup {SystemPayload(72, C(220)), OccupancyPayload(TRUE)}

NextEntities ==
    \/ Quiet /\ Connect(<<TRUE, TRUE, TRUE>>)
    \/ \E p \in EntityPayloads : Quiet /\ Poll(Response(200, Delivery(p)), TRUE)
    \/ Return

SpecEntities == InitLeaves /\ [][NextEntities]_vars

\* The ids of the entries of a list of entities.
IdsOf(entities) == {entities[i].id : i \in 1..Len(entities)}

\* The zones and the equipment of the first system, none while there is no
\* system.
ZonesOf(syss) == IF syss = <<>> THEN <<>> ELSE syss[1].zones
EquipmentsOf(syss) == IF syss = <<>> THEN <<>> ELSE syss[1].equipments

\* The ids of the zones entries of the payload the step reconciles, as the
\* payload gives them.
CarriedZones ==
    IF connected /\ last'.op = "poll" /\ last'.result.tag = "Ok"
       /\ IsSome(Get(Unwrap(last'.arg.body.messages[1].Data), "zones"))
    THEN LET entries == Unwrap(Get(Unwrap(last'.arg.body.messages[1].Data), "zones")).a
         IN {Unwrap(GetU64(entries[i], "id")) : i \in 1..Len(entries)}
    ELSE {}

\* C34 (entity sets): the model holds at most one system, with id "0"; no
\* two zones and no two equipments share an id; the zones are those whose id
\* a reconciled payload carried in a zones entry; zones, equipment and
\* parameters are never removed.
C34_EntitySets ==
    [][/\ Len(systems') <= 1
       /\ systems' # <<>> => systems'[1].id = "0"
       /\ Cardinality(IdsOf(ZonesOf(systems'))) = Len(ZonesOf(systems'))
       /\ Cardinality(IdsOf(EquipmentsOf(systems'))) = Len(EquipmentsOf(systems'))
       /\ IdsOf(ZonesOf(systems')) = IdsOf(ZonesOf(systems)) \cup CarriedZones
       /\ IdsOf(EquipmentsOf(systems)) \subseteq IdsOf(EquipmentsOf(systems'))
       /\ \A e \in IdsOf(EquipmentsOf(systems)) :
             DOMAIN Unwrap(FindById(EquipmentsOf(systems), e)).parameters
                \subseteq DOMAIN Unwrap(FindById(EquipmentsOf(systems'), e)).parameters]_vars

----------------------------------------------------------------------------
(* SpecCommands: commands issued back to back.  A command is made from a    *)
(* quiet state or straight after another command, before the caller has     *)
(* cleared the logs; the client may have a diagnostic level.                *)

CommandZones == {0, 1}
CommandBodies ==
    {Delivery(ZonesPayload(<<ZoneUpstairs>>)), Delivery(ZonesPayload(<<ZoneScheduled>>))}

\* A quiet client, or one whose last call was a single command.
MayCommand == Quiet \/ (last.op \in CommandOps /\ Len(sent) <= 2)

NextCommands ==
    \/ Quiet /\ Connect(<<TRUE, TRUE, TRUE>>)
    \/ \E body \in CommandBodies : Quiet /\ Poll(Response(200, body), TRUE)
    \/ \E z \in CommandZones, oks \in Oks2 : MayCommand /\ SetHvacMode(z, "Heat", oks)
    \/ \E z \in CommandZones, oks \in Oks2 : MayCommand /\ SetFanMode(z, "On", oks)
    \/ \E z \in CommandZones, oks \in Oks2 : MayCommand /\ SetHeatSetpoint(z, C(210), oks)
    \/ \E z \in CommandZones, oks \in Oks2 : MayCommand /\ SetCoolSetpoint(z, C(240), oks)
    \/ \E z \in CommandZones, oks \in Oks2 :
          MayCommand /\ SetSetpoints(z, C(210), C(240), oks)
    \/ \E away \in BOOLEAN, oks \in Oks2 : MayCommand /\ SetAway(away, oks)
    \/ \E z \in CommandZones, oks \in Oks2 : MayCommand /\ SetScheduleHold(z, TRUE, oks)
    \/ \E oks \in Oks2 : MayCommand /\ SetEquipmentParameter(1, 304, "90", oks)
    \/ Return

SpecCommands == InitDiag /\ [][NextCommands]_vars

\* C35 (commands have no local effect): a command method, succeeding or
\* failing, leaves the domain model, the mirror, the enforcer, the pending
\* flag and the observers' log as they were; the model changes only in a
\* poll; and a mode, fan or setpoint command made straight after another one
\* on a known zone that is not on its manual schedule begins, like the first,
\* with the schedule switch of that zone.
C35_CommandsNoLocalEffect ==
    [][/\ last'.op \in CommandOps =>
            /\ systems' = systems
            /\ previous_json' = previous_json
            /\ diag_enforcer' = diag_enforcer
            /\ diag_reassert_needed' = diag_reassert_needed
            /\ calls' = calls
       /\ systems' # systems => last'.op = "poll"
       /\ (/\ last.op \in DOMAIN GatedOps
           /\ last'.op \in DOMAIN GatedOps
           /\ connected
           /\ last'.result.tag # "InvalidSetpoints"
           /\ IsSome(find_zone(systems, last'.arg.zone))
           /\ Unwrap(find_zone(systems, last'.arg.zone)).schedule_id
                 # Some(manual_schedule_id(last'.arg.zone)))
          => /\ Len(sent') > Len(sent)
             /\ sent'[Len(sent) + 1].data = set_manual_mode_data(last'.arg.zone)]_vars

\* Two setpoint commands in a row on zone 0, known and on a programmed
\* schedule: each sent the schedule switch and then its command.
C35_Witness ==
    /\ last.op = "set_cool_setpoint"
    /\ last.arg.zone = 0
    /\ connected
    /\ IsSome(find_zone(systems, 0))
    /\ Unwrap(find_zone(systems, 0)).schedule_id = Some(1)
    /\ Len(sent) = 4
    /\ sent[1].data = set_manual_mode_data(0) /\ sent[1].ok
    /\ sent[2].data.kind = "set_setpoint"
    /\ sent[3].data = set_manual_mode_data(0) /\ sent[3].ok
    /\ sent[4].data.kind = "set_setpoint"

----------------------------------------------------------------------------
(* SpecLifecycle: connections, disconnections, polls and a command in any   *)
(* order, each request of a handshake and of a disconnection succeeding or  *)
(* failing.                                                                 *)

NextLifecycle ==
    \/ \E oks \in Oks3 : Quiet /\ Connect(oks)
    \/ \E ok \in BOOLEAN : Quiet /\ Disconnect(ok)
    \/ \E level \in ReportedLevels, pub_ok \in BOOLEAN :
          Quiet /\ Poll(Response(200, Delivery(DiagPayload(level))), pub_ok)
    \/ \E away \in BOOLEAN, oks \in Oks2 : Quiet /\ SetAway(away, oks)
    \/ \E d \in ConnectTicks : Quiet /\ now + d <= ConnectHorizon /\ Tick(d)
    \/ Return

SpecLifecycle == InitDiag /\ [][NextLifecycle]_vars

\* The requests of the step's call all succeeded.
AllSucceeded == \A i \in 1..Len(NewRequests) : NewRequests[i].ok

\* The kinds of the requests the step sent, in order.
NewKinds == [i \in 1..Len(NewRequests) |-> NewRequests[i].req]

\* C36 (connected flag): the flag becomes true only at the end of a connect()
\* whose every handshake request succeeded (open session, subscribe, and the
\* diagnostic-level command when a level is configured), and becomes false
\* only at the end of a successful disconnect(); a connect() or disconnect()
\* with a failed request returns the transport error and leaves the flag as
\* it was, and no other call changes the flag.
C36_ConnectedFlag ==
    [][/\ (~connected /\ connected') =>
            /\ last'.op = "connect"
            /\ last'.result = Ok
            /\ AllSucceeded
            /\ NewKinds = (IF IsSome(diag_enforcer)
                           THEN <<"Connect", "Subscribe", "Publish">>
                           ELSE <<"Connect", "Subscribe">>)
       /\ (connected /\ ~connected') =>
            /\ last'.op = "disconnect"
            /\ last'.result = Ok
            /\ AllSucceeded
            /\ NewKinds = <<"Disconnect">>
       /\ (Quiet /\ last'.op \in {"connect", "disconnect"}) =>
            IF AllSucceeded
            THEN /\ last'.result = Ok
                 /\ connected' = (last'.op = "connect")
            ELSE /\ last'.result = Http
                 /\ connected' = connected]_vars

\* A failed reconnection: a connected client that has polled calls connect()
\* again, the subscribe request fails, and the client is still connected.
C36_Witness ==
    /\ last.op = "connect"
    /\ last.result = Http
    /\ connected
    /\ Len(sent) = 2
    /\ ~sent[2].ok
    /\ IsSome(diag_enforcer)
    /\ IsSome(Unwrap(diag_enforcer).last_sent)

----------------------------------------------------------------------------
(* SpecCycle: a client that polls, disconnects, connects again and polls,   *)
(* the caller keeping the logs across a disconnection and the reconnection  *)
(* that follows it.                                                         *)

NextCycle ==
    \/ \E oks \in Oks3 : (Quiet \/ last.op = "disconnect") /\ Connect(oks)
    \/ \E ok \in BOOLEAN : Quiet /\ Disconnect(ok)
    \/ \E payload \in ReconPayloads :
          /\ Quiet \/ (last.op = "connect" /\ Len(sent) = 3)
          /\ Poll(Response(200, Delivery(payload)), TRUE)
    \/ Return

SpecCycle == InitLeaves /\ [][NextCycle]_vars

\* The step is a poll that goes through a payload straight after a
\* reconnection: a successful disconnect() and then a successful connect().
PollAfterCycle ==
    /\ last.op = "connect"
    /\ last.result = Ok
    /\ Len(sent) = 3
    /\ sent[1] = Request("Disconnect", NoData, TRUE)
    /\ last'.op = "poll"
    /\ last'.result = Ok
    /\ Len(sent') = Len(sent) + 1

\* The payload of the step re-delivers what the client holds: the model and
\* the mirror after it are the model and the mirror before it.
NothingNew ==
    /\ systems' = systems
    /\ previous_json' = previous_json

\* C37 (reconnection keeps the model): disconnect() and connect(), failed or
\* not, leave the model and the mirror as they were and call no observer;
\* the first poll after a disconnection and a reconnection, when its payload
\* re-delivers values the client already holds, calls no event observer.
C37_CycleKeepsModel ==
    [][/\ last'.op \in {"connect", "disconnect"} =>
            /\ systems' = systems
            /\ previous_json' = previous_json
            /\ calls' = calls
       /\ (PollAfterCycle /\ NothingNew) => EventsTold = <<>>]_vars

----------------------------------------------------------------------------
(* SpecFrame: partial payloads.  Each payload carries one section with some *)
(* of its keys, some of them with a value of another type than the one the  *)
(* client reads; the client takes one payload and then another.             *)

FrameSystems ==
    {JObj([config |-> JObj([name |-> JStr("Home"),
                            options |-> JObj([productType |-> JStr("S30"),
                                              temperatureUnit |-> JStr("F")])]),
           status |-> JObj([outdoorTemperature |-> JNum(72),
                            outdoorTemperatureC |-> JNum(C(220)),
                            singleSetpointMode |-> JBool(TRUE),
                            diagLevel |-> JNum(2)])]),
     JObj([status |-> JObj([outdoorTemperatureC |-> JNum(C(240)),
                            singleSetpointMode |-> JStr("yes")])]),
     JObj([config |-> JObj([name |-> JNum(5)]),
           status |-> JObj([outdoorTemperature |-> JStr("hot"),
                            diagLevel |-> JStr("2")])])}

FrameOccupancies ==
    {JObj([manualAway |-> JBool(TRUE),
           smartAway |-> JObj([enabled |-> JBool(TRUE), setpointState |-> JStr("away")])]),
     JObj([smartAway |-> JObj([enabled |-> JBool(FALSE)])]),
     JObj([manualAway |-> JStr("yes"), smartAway |-> JObj([setpointState |-> JNum(1)])])}

FrameZones ==
    {JObj([id |-> JNum(0), name |-> JStr("Upstairs"),
           status |-> JObj([temperature |-> JNum(72), temperatureC |-> JNum(C(220)),
                            humidity |-> JNum(45), fan |-> JBool(TRUE),
                            tempOperation |-> JStr("heating"), aux |-> JBool(TRUE),
                            period |-> JObj([systemMode |-> JStr("cool"),
                                             fanMode |-> JStr("on"),
                                             hsp |-> JNum(70), hspC |-> JNum(C(210)),
                                             csp |-> JNum(76), cspC |-> JNum(C(245))])]),
           config |-> JObj([scheduleId |-> JNum(16),
                            scheduleHold |-> JObj([scheduleId |-> JNum(32),
                                                   enabled |-> JBool(TRUE)])])]),
     JObj([id |-> JNum(0),
           status |-> JObj([temperatureC |-> JNum(C(240)),
                            period |-> JObj([hsp |-> JNum(68), fanMode |-> JStr("auto")])])]),
     JObj([id |-> JNum(0), name |-> JNum(7),
           status |-> JObj([humidity |-> JStr("wet"), fan |-> JStr("on"),
                            tempOperation |-> JNum(3), aux |-> JNum(1),
                            period |-> JObj([systemMode |-> JNum(1),
                                             csp |-> JStr("x"), cspC |-> JNum(C(250))])]),
           config |-> JObj([scheduleId |-> JStr("16")])]),
     JObj([id |-> JNum(1), config |-> JObj([name |-> JStr("Downstairs")])])}

FrameEquipments ==
    {JObj([id |-> JNum(1),
           equipment |-> JObj([equipType |-> JNum(18),
                               parameters |-> JArr(<<LockoutTime("60")>>)])]),
     JObj([id |-> JNum(1),
           equipment |-> JObj([parameters |-> JArr(<<ParamEntry(304, None)>>)])]),
     JObj([id |-> JNum(1), equipment |-> JObj([equipType |-> JNum(19)])]),
     JObj([id |-> JNum(2),
           equipment |-> JObj([equipType |-> JStr("18"),
                               parameters |-> JArr(<<ParamEntry(305, Some("90"))>>)])])}

FramePayloads ==
    {JObj([system |-> s]) : s \in FrameSystems}
        \cup {JObj([occupancy |-> o]) : o \in FrameOccupancies}
        \cup {ZonesPayload(<<z>>) : z \in FrameZones}
        \cup {JObj([equipments |-> JArr(<<e>>)]) : e \in FrameEquipments}
        \cup {AlertsPayload(<<Alert(18, TRUE)>>), AlertsPayload(<<Alert(19, TRUE)>>),
              AlertsPayload(<<>>)}

NextFrame ==
    \/ Quiet /\ Connect(<<TRUE, TRUE, TRUE>>)
    \/ \E payload \in FramePayloads :
          /\ (Quiet /\ systems = <<>>) \/ (last.op = "poll" /\ Len(sent) = 1)
          /\ Poll(Response(200, Delivery(payload)), TRUE)
    \/ Return

SpecFrame == InitLeaves /\ [][NextFrame]_vars

\* The payload carries, with the type the client reads, the keys the field of
\* the system is taken from.
SystemSourced(field, data) ==
    LET status == PointerOr(data, <<"system", "status">>, JNull)
        occ == PointerOr(data, <<"occupancy">>, JNull)
        active == Pointer(data, <<"alerts", "active">>)
    IN CASE field = "name" -> IsSome(PointerStr(data, <<"system", "config", "name">>))
         [] field = "product_type" ->
              IsSome(PointerStr(data, <<"system", "config", "options", "productType">>))
         [] field = "temperature_unit" ->
              IsSome(PointerStr(data, <<"system", "config", "options", "temperatureUnit">>))
         [] field = "indoor_unit_type" ->
              IsSome(PointerStr(data, <<"system", "config", "options", "indoorUnitType">>))
         [] field = "outdoor_unit_type" ->
              IsSome(PointerStr(data, <<"system", "config", "options", "outdoorUnitType">>))
         [] field = "outdoor_temperature" ->
              \/ IsSome(GetF64(status, "outdoorTemperature"))
              \/ IsSome(GetF64(status, "outdoorTemperatureC"))
         [] field = "single_setpoint_mode" -> IsSome(GetBool(status, "singleSetpointMode"))
         [] field = "diag_level" -> IsSome(GetU64(status, "diagLevel"))
         [] field = "manual_away" -> IsSome(GetBool(occ, "manualAway"))
         [] field = "smart_away_enabled" ->
              IsSome(GetBool(PointerOr(occ, <<"smartAway">>, JNull), "enabled"))
         [] field = "smart_away_setpoint_state" ->
              IsSome(GetStr(PointerOr(occ, <<"smartAway">>, JNull), "setpointState"))
         [] field \in {"hp_low_ambient_lockout", "aux_heat_high_ambient_lockout"} ->
              IsSome(active) /\ Unwrap(active).t = "arr"
         [] OTHER -> FALSE

\* The same for a field of a zone and the zone's entry of the payload.
ZoneSourced(field, entry) ==
    LET status == PointerOr(entry, <<"status">>, JNull)
        period == PointerOr(status, <<"period">>, JNull)
    IN CASE field = "name" ->
              IsSome(GetStr(entry, "name")) \/ IsSome(PointerStr(entry, <<"config", "name">>))
         [] field = "temperature" ->
              IsSome(GetF64(status, "temperature")) \/ IsSome(GetF64(status, "temperatureC"))
         [] field = "humidity" -> IsSome(GetF64(status, "humidity"))
         [] field = "mode" -> IsSome(GetStr(period, "systemMode"))
         [] field = "heat_setpoint" ->
              IsSome(GetF64(period, "hsp")) /\ IsSome(GetF64(period, "hspC"))
         [] field = "cool_setpoint" ->
              IsSome(GetF64(period, "csp")) /\ IsSome(GetF64(period, "cspC"))
         [] field = "fan_mode" -> IsSome(GetStr(period, "fanMode"))
         [] field = "fan_running" -> IsSome(GetBool(status, "fan"))
         [] field = "operating" -> IsSome(GetStr(status, "tempOperation"))
         [] field = "aux_heat" -> IsSome(GetBool(status, "aux"))
         [] field = "schedule_id" -> IsSome(PointerU64(entry, <<"config", "scheduleId">>))
         [] field = "override_active" ->
              is_object(PointerOr(entry, <<"config", "scheduleHold">>, JNull))
         [] OTHER -> FALSE

\* The same for a field of a parameter and the parameter's entry.
ParameterSourced(field, param_data) ==
    CASE field = "name" -> IsSome(GetStr(param_data, "name"))
      [] field = "value" -> IsSome(GetStr(param_data, "value"))
      [] field = "enabled" -> IsSome(GetBool(param_data, "enabled"))
      [] field = "descriptor" -> IsSome(GetStr(param_data, "descriptor"))
      [] OTHER -> FALSE

\* The entries of a section's array that name the id.
EntriesFor(data, section, id) ==
    LET arr == PointerOr(data, <<section>>, JNull)
    IN {arr.a[i] : i \in {j \in 1..Len(arr.a) : GetU64(arr.a[j], "id") = Some(id)}}

\* The parameter entries of an equipment entry that name the pid.
ParametersFor(entry, pid) ==
    LET arr == PointerOr(entry, <<"equipment", "parameters">>, JNull)
    IN {Unwrap(Get(arr.a[i], "parameter")) :
          i \in {j \in 1..Len(arr.a) :
                   /\ IsSome(Get(arr.a[j], "parameter"))
                   /\ GetU64(Unwrap(Get(arr.a[j], "parameter")), "pid") = Some(pid)}}

\* The entity as it was before the step; one the step creates starts from
\* its default.
Before(seq, id, default) == UnwrapOr(FindById(seq, id), default)

ZoneFrame(old, new, data) ==
    /\ \A i \in 1..Len(old.zones) : IsSome(FindById(new.zones, old.zones[i].id))
    /\ \A i \in 1..Len(new.zones) :
          \A z \in {new.zones[i]} :
             \A was \in {Before(old.zones, z.id, DefaultZone(z.id))} :
                \A field \in DOMAIN z :
                   z[field] # was[field] =>
                      \E entry \in EntriesFor(data, "zones", z.id) : ZoneSourced(field, entry)

EquipmentFrame(old, new, data) ==
    /\ \A i \in 1..Len(old.equipments) :
          IsSome(FindById(new.equipments, old.equipments[i].id))
    /\ \A i \in 1..Len(new.equipments) :
          \A e \in {new.equipments[i]} :
             \A was \in {Before(old.equipments, e.id, DefaultEquipment(e.id))} :
                /\ e.equip_type # was.equip_type =>
                      \E entry \in EntriesFor(data, "equipments", e.id) :
                         IsSome(PointerU64(entry, <<"equipment", "equipType">>))
                /\ DOMAIN was.parameters \subseteq DOMAIN e.parameters
                /\ \A pid \in DOMAIN was.parameters :
                      \A field \in DOMAIN e.parameters[pid] :
                         e.parameters[pid][field] # was.parameters[pid][field] =>
                            \E entry \in EntriesFor(data, "equipments", e.id) :
                               \E pd \in ParametersFor(entry, pid) :
                                  ParameterSourced(field, pd)

\* C39 (partial-update frame): a payload changes only the fields of the
\* model whose source keys it carries with the type the client reads; every
\* other field of the system, of every zone, of every equipment and of every
\* known parameter keeps its value, and no entity is dropped.  The two
\* lockout flags follow every alerts.active list.
C39_PartialUpdateFrame ==
    [][(connected /\ last'.op = "poll" /\ last'.result = Ok /\ systems' # <<>>) =>
         \A data \in {Unwrap(last'.arg.body.messages[1].Data)} :
            \A old \in {IF systems = <<>> THEN DefaultSystem("0") ELSE systems[1]} :
               \A new \in {systems'[1]} :
                  /\ Len(systems') = 1
                  /\ \A field \in DOMAIN new \ {"id", "zones", "equipments"} :
                        new[field] # old[field] => SystemSourced(field, data)
                  /\ new.id = old.id
                  /\ ZoneFrame(old, new, data)
                  /\ EquipmentFrame(old, new, data)]_vars

----------------------------------------------------------------------------
(* SpecSilent: the outdoor temperature and the temperature of zone 0         *)
(* reported by either member of the pair or by both, on a fresh client and  *)
(* then once more.                                                          *)

SilentOutdoors == {None, Some(JNum(72))}
SilentOutdoorCompanions == {None, Some(JNum(C(220))), Some(JNum(C(240)))}
SilentRooms == {None, Some(JNum(71))}
SilentRoomCompanions == {None, Some(JNum(C(215))), Some(JNum(C(230)))}

SilentPayloads ==
    {OutdoorPayload(f, c) : f \in SilentOutdoors, c \in SilentOutdoorCompanions}
    \cup {RoomPayload(f, c) : f \in SilentRooms, c \in SilentRoomCompanions}

NextSilent ==
    \/ Quiet /\ Connect(<<TRUE, TRUE, TRUE>>)
    \/ \E p \in SilentPayloads :
          /\ (Quiet /\ systems = <<>>) \/ (last.op = "poll" /\ Len(sent) = 1)
          /\ Poll(Response(200, Delivery(p)), TRUE)
    \/ Return

SpecSilent == InitLeaves /\ [][NextSilent]_vars

\* The names of the pair the payload of the step reports: the outdoor
\* temperature of the system or the temperature of zone 0.
SilentPair ==
    IF IsSome(Get(Delivered, "system"))
    THEN [f |-> "outdoorTemperature", c |-> "outdoorTemperatureC"]
    ELSE [f |-> "temperature", c |-> "temperatureC"]

\* The payload of the step changes the Celsius member of the pair, to a
\* number, and its Fahrenheit member is as the mirror has it or is absent.
OnlyCelsiusChanges ==
    LET reported == PointerOr(ScopeReported, <<"status">>, JNull)
        mirrored == PointerOr(ScopeMirrored, <<"status">>, JNull)
    IN /\ IsSome(GetF64(reported, SilentPair.c))
       /\ Get(reported, SilentPair.c) # Get(mirrored, SilentPair.c)
       /\ \/ Get(reported, SilentPair.f) = None
          \/ Get(reported, SilentPair.f) = Get(mirrored, SilentPair.f)

\* The temperature the model holds after the step for the pair reported.
SilentTemperature ==
    IF IsSome(Get(Delivered, "system")) THEN systems'[1].outdoor_temperature
    ELSE Unwrap(FindById(systems'[1].zones, 0)).temperature

\* The event is a temperature event or names a member of the pair.
AboutPair(e) ==
    \/ e.type \in {"OutdoorTempChanged", "ZoneTemperatureChanged"}
    \/ /\ NamesLeaf(e)
       /\ e.path \in {<<"status", SilentPair.f>>, <<"status", SilentPair.c>>}

\* C40 (silent model update): when a payload changes only the Celsius member
\* of the outdoor temperature pair or of a zone's temperature pair, with the
\* Fahrenheit member unchanged or absent, the temperature of the model
\* becomes the Celsius value reported, every snapshot observer is called
\* with the updated system, and no event is fired for the change: neither
\* a temperature event nor an event naming a member of the pair.
C40_SilentModelUpdate ==
    [][(DeliveringPoll /\ OnlyCelsiusChanges) =>
         /\ SilentTemperature =
              Some(from_celsius(Unwrap(GetF64(PointerOr(ScopeReported, <<"status">>, JNull),
                                              SilentPair.c))))
         /\ \A cb \in 1..snapshot_callbacks :
               \E call \in NewCalls :
                  /\ call.kind = "snapshot"
                  /\ call.cb = cb
                  /\ call.system = systems'[1]
         /\ \A i \in 1..Len(EventsTold) : ~AboutPair(EventsTold[i])]_vars

\* Two polls in a row: zone 0 reported at 71 / 21.5, then at 71 / 23.0.  The
\* model holds 23.0 degrees, and the second poll called the snapshot observer
\* and no event observer.
C40_Witness ==
    /\ last.op = "poll"
    /\ last.arg.body = Delivery(RoomPayload(Some(JNum(71)), Some(JNum(C(230)))))
    /\ Len(sent) = 2
    /\ systems # <<>>
    /\ systems[1].zones # <<>>
    /\ systems[1].zones[1].temperature = Some(C(230))
    /\ Pointer(previous_json, <<"zones", "0", "status", "temperature">>) = Some(JNum(71))
    /\ calls[Len(calls)] = [kind |-> "snapshot", cb |-> snapshot_callbacks,
                            system |-> systems[1]]
    /\ \A told \in {SelectSeq(calls, LAMBDA c : c.kind = "event" /\ c.cb = 1
                                               /\ c.event.type = "ZoneTemperatureChanged")} :
          /\ Len(told) = 1
          /\ told[1].event.temp = from_pair(71, C(215))

====
